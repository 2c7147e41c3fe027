---------------------------- MODULE DeliveryProofs --------------------------
(***************************************************************************)
(* The Redis mode implements at-most-once delivery (ImplementsDelivery):   *)
(* every step of RedisConsumer maps to a step of Delivery or changes none  *)
(* of the outcomes.  And what it promises a batch when nothing disturbs it *)
(* (UndisturbedIsMarked).                                                  *)
(***************************************************************************)
EXTENDS OrderProofs

\* The places where the result of entry id may be.
Held(id) ==
    \E p \in Proc : \E x \in Undispatched(p) : x.id = id /\ ~x.marker

Went(id, ok) ==
    \E p \in Proc : \E x \in Range(handled[p]) :
        x.id = id /\ ~x.marker /\ x.ok = ok

Gone(id) == \E x \in lost : x.id = id /\ ~x.marker

Nowhere(id) ==
    /\ ~Held(id) /\ ~Went(id, TRUE) /\ ~Went(id, FALSE) /\ ~Gone(id)
    /\ ~HasDeadLetter(id)

\* An entry is dead-lettered once.
OneDeadLetter ==
    \A i, j \in DOMAIN dead : dead[i].id = dead[j].id => i = j

\* An entry that is processed is pending.
BusyIsPending == \A p \in Proc : pc[p] \in Busy => cur[p] \in pel

DeliveryInv ==
    /\ OrderInv /\ OneDeadLetter /\ BusyIsPending
    /\ Len(input) <= MaxEntries

\* What the refinement mapping says of an entry.
OutcomeTable(id) ==
    /\ Held(id) => Outcome(id) = "queued"
    /\ Went(id, TRUE) => Outcome(id) = "sent"
    /\ Went(id, FALSE) \/ Gone(id) => Outcome(id) = "lost"
    /\ HasDeadLetter(id) => Outcome(id) = "rejected"
    /\ Nowhere(id) =>
           Outcome(id) = IF id \in Delivered \ pel /\ NeedsNoResult(input[id])
                         THEN "ignored" ELSE "open"

-----------------------------------------------------------------------------
(* The four kinds of copies an outcome is computed from.                    *)
LEMMA CopyKinds ==
    ASSUME NEW id, NEW c
    PROVE  c \in Copies(id) <=>
           \/ \E p \in Proc : \E i \in DOMAIN handled[p] :
                  /\ handled[p][i].id = id /\ ~handled[p][i].marker
                  /\ c = <<"handled", p, i,
                           IF handled[p][i].ok THEN "sent" ELSE "lost">>
           \/ \E p \in Proc : \E i \in DOMAIN Pipeline(p) :
                  /\ Pipeline(p)[i].id = id /\ ~Pipeline(p)[i].marker
                  /\ c = <<"held", p, i, "queued">>
           \/ \E x \in lost : /\ x.id = id /\ ~x.marker
                              /\ c = <<"ended", Nobody, x.id, "lost">>
           \/ \E k \in DOMAIN dead : /\ dead[k].id = id
                                     /\ c = <<"dead", Nobody, k, "rejected">>
  <1> DEFINE
        of(s) == {i \in DOMAIN s : s[i].id = id /\ ~s[i].marker}
        went(d) == IF d.ok THEN "sent" ELSE "lost"
        A(p) == {<<"handled", p, i, went(handled[p][i])>> : i \in of(handled[p])}
        B(p) == {<<"held", p, i, "queued">> : i \in of(Pipeline(p))}
        C == {<<"ended", Nobody, x.id, "lost">> :
                 x \in {y \in lost : y.id = id /\ ~y.marker}}
        D == {<<"dead", Nobody, i, "rejected">> :
                 i \in {k \in DOMAIN dead : dead[k].id = id}}
  <1>1. Copies(id) = (UNION {A(p) \cup B(p) : p \in Proc}) \cup C \cup D
    BY DEF Copies
  <1>2. \A p : c \in A(p) <=>
            \E i \in DOMAIN handled[p] :
                  /\ handled[p][i].id = id /\ ~handled[p][i].marker
                  /\ c = <<"handled", p, i,
                           IF handled[p][i].ok THEN "sent" ELSE "lost">>
    OBVIOUS
  <1>3. \A p : c \in B(p) <=>
            \E i \in DOMAIN Pipeline(p) :
                  /\ Pipeline(p)[i].id = id /\ ~Pipeline(p)[i].marker
                  /\ c = <<"held", p, i, "queued">>
    OBVIOUS
  <1>4. c \in C <=> \E x \in lost : /\ x.id = id /\ ~x.marker
                                    /\ c = <<"ended", Nobody, x.id, "lost">>
    OBVIOUS
  <1>5. c \in D <=> \E k \in DOMAIN dead :
                        dead[k].id = id /\ c = <<"dead", Nobody, k, "rejected">>
    OBVIOUS
  <1>6. c \in UNION {A(p) \cup B(p) : p \in Proc} <=>
            \E p \in Proc : c \in A(p) \cup B(p)
    BY Zenon
  <1>7. (\E p \in Proc : c \in A(p)) <=>
            \E p \in Proc : \E i \in DOMAIN handled[p] :
                  /\ handled[p][i].id = id /\ ~handled[p][i].marker
                  /\ c = <<"handled", p, i,
                           IF handled[p][i].ok THEN "sent" ELSE "lost">>
    BY <1>2
  <1>8. (\E p \in Proc : c \in B(p)) <=>
            \E p \in Proc : \E i \in DOMAIN Pipeline(p) :
                  /\ Pipeline(p)[i].id = id /\ ~Pipeline(p)[i].marker
                  /\ c = <<"held", p, i, "queued">>
    BY <1>3
  <1> DEFINE U == UNION {A(p) \cup B(p) : p \in Proc}
  <1>9. Copies(id) = U \cup C \cup D
    BY <1>1
  <1>10. c \in U <=> \E p \in Proc : c \in A(p) \cup B(p)
    BY <1>6
  <1> HIDE DEF U, A, B, C, D
  <1>11. c \in U <=> (\E p \in Proc : c \in A(p)) \/ (\E p \in Proc : c \in B(p))
    BY <1>10
  <1>12. c \in Copies(id) <=> c \in U \/ c \in C \/ c \in D
    BY <1>9
  <1> QED
    BY <1>4, <1>5, <1>7, <1>8, <1>11, <1>12

(* The result of an entry is in one place at most.                          *)
LEMMA OneCopy ==
    ASSUME DeliveryInv, NEW id
    PROVE  \A c, e \in Copies(id) : c = e
  <1>1. /\ ProcessTyped /\ OneDeadLetter /\ OneFate
        /\ \A p \in Proc : LineOK(p)
        /\ LineOwner /\ LostGone
    BY TypedProcesses DEF DeliveryInv, OrderInv, FateInv
  <1>2. ASSUME NEW p \in Proc
        PROVE  /\ \A i \in DOMAIN handled[p] : handled[p][i] \in Range(handled[p])
               /\ \A i \in DOMAIN Pipeline(p) : Pipeline(p)[i] \in Undispatched(p)
    <2>1. Range(Pipeline(p)) = Undispatched(p)
      BY <1>1, PipelineFacts
    <2> QED
      BY <2>1 DEF Range
  <1>3. ASSUME NEW p \in Proc, NEW s, s = handled[p] \/ s = Pipeline(p),
               NEW i \in DOMAIN s, NEW j \in DOMAIN s,
               s[i].id = s[j].id, ~s[i].marker, ~s[j].marker
        PROVE  i = j
    <2>1. /\ Increasing(s) /\ DOMAIN s = 1..Len(s) /\ Len(s) \in Nat
      BY <1>1, <1>3, PipelineFacts, LenProperties
      DEF LineOK, OrderedLine, ProcessTyped, ProcessTypeOK
    <2>2. s[i] \in Line(p) /\ s[j] \in Line(p)
      BY <1>2, <1>3 DEF Line
    <2>3. /\ s[i].id \in Nat /\ s[i].marker \in BOOLEAN
          /\ s[j].id \in Nat /\ s[j].marker \in BOOLEAN
      BY <1>1, <2>2, LineTypes
    <2>4. ~(Rank(s[i]) < Rank(s[j])) /\ ~(Rank(s[j]) < Rank(s[i]))
      BY <1>3, <2>3, RankFacts
    <2>5. ~(i < j) /\ ~(j < i)
      BY <2>1, <2>4 DEF Increasing
    <2> QED
      BY <2>1, <2>5
  <1>4. ASSUME NEW p \in Proc, NEW x \in Line(p), x.id = id
        PROVE  id \in 1..Len(reads) /\ reads[id] = p
    BY <1>1, <1>4 DEF LineOwner
  <1>5. ASSUME NEW p \in Proc, NEW x \in Range(handled[p]),
               NEW y \in Undispatched(p), x.id = id, y.id = id,
               ~x.marker, ~y.marker
        PROVE  FALSE
    <2>1. Rank(x) < Rank(y)
      BY <1>1 DEF LineOK, OrderedLine
    <2>2. /\ x.id \in Nat /\ x.marker \in BOOLEAN
          /\ y.id \in Nat /\ y.marker \in BOOLEAN
      BY <1>1, LineTypes DEF Line
    <2> QED
      BY <1>5, <2>1, <2>2, RankFacts
  <1>6. ASSUME NEW p \in Proc, NEW x \in Line(p), x.id = id, ~x.marker
        PROVE  ~Gone(id) /\ ~HasDeadLetter(id)
    <2>1. HasItem(id)
      <3>1. x.marker = FALSE
        BY <1>1, <1>6, LineTypes
      <3> QED
        BY <1>6, <3>1 DEF HasItem, Queued, Line
    <2>2. ~HasDeadLetter(id)
      BY <1>1, <1>4, <1>6, <2>1 DEF OneFate
    <2>3. ASSUME NEW y \in lost, y.id = id, ~y.marker
          PROVE  FALSE
      <3>1. y.marker = x.marker
        BY <1>1, <1>6, <2>3, LineTypes
      <3> QED
        BY <1>1, <1>6, <2>3, <3>1 DEF LostGone
    <2> QED
      BY <2>2, <2>3 DEF Gone
  <1>7. Gone(id) => ~HasDeadLetter(id)
    <2> SUFFICES ASSUME Gone(id) PROVE ~HasDeadLetter(id)
      OBVIOUS
    <2>1. PICK x \in lost : x.id = id /\ ~x.marker
      BY DEF Gone
    <2>2. x.marker = FALSE
      BY <1>1, <2>1, LineTypes DEF ProcessTyped, ProcessTypeOK, Item
    <2>3. HasItem(id) /\ id \in 1..Len(reads)
      BY <1>1, <2>1, <2>2 DEF HasItem, Queued, LostGone
    <2> QED
      BY <1>1, <2>3 DEF OneFate
  <1>8. \A k \in DOMAIN dead : dead[k].id = id => HasDeadLetter(id)
    BY DEF HasDeadLetter, Range
  <1> SUFFICES ASSUME NEW c \in Copies(id), NEW e \in Copies(id)
               PROVE  c = e
    OBVIOUS
  <1> DEFINE
        IsHandled(f, p, i) ==
            /\ handled[p][i].id = id /\ ~handled[p][i].marker
            /\ f = <<"handled", p, i,
                     IF handled[p][i].ok THEN "sent" ELSE "lost">>
        IsHeld(f, p, i) ==
            /\ Pipeline(p)[i].id = id /\ ~Pipeline(p)[i].marker
            /\ f = <<"held", p, i, "queued">>
        Handled(f) == \E p \in Proc : \E i \in DOMAIN handled[p] :
                          IsHandled(f, p, i)
        Waits(f) == \E p \in Proc : \E i \in DOMAIN Pipeline(p) : IsHeld(f, p, i)
        Ended(f) == Gone(id) /\ f = <<"ended", Nobody, id, "lost">>
        Dead(f) == \E k \in DOMAIN dead : /\ dead[k].id = id
                                          /\ f = <<"dead", Nobody, k, "rejected">>
  <1>9. \A f \in {c, e} : Handled(f) \/ Waits(f) \/ Ended(f) \/ Dead(f)
    BY CopyKinds DEF Gone
  <1>10. \A f : Handled(f) \/ Waits(f) => ~Gone(id) /\ ~HasDeadLetter(id)
    BY <1>2, <1>6 DEF Line
  <1>11. \A f : Dead(f) => HasDeadLetter(id)
    BY <1>8
  <1>12. Handled(c) /\ Handled(e) => c = e
    <2> SUFFICES ASSUME NEW p \in Proc, NEW q \in Proc,
                        NEW i \in DOMAIN handled[p], NEW j \in DOMAIN handled[q],
                        IsHandled(c, p, i), IsHandled(e, q, j)
                 PROVE  c = e
      OBVIOUS
    <2>1. p = q
      BY <1>2, <1>4 DEF Line
    <2>2. i = j
      BY <1>3, <2>1
    <2> QED
      BY <2>1, <2>2
  <1>13. Waits(c) /\ Waits(e) => c = e
    <2> SUFFICES ASSUME NEW p \in Proc, NEW q \in Proc,
                        NEW i \in DOMAIN Pipeline(p), NEW j \in DOMAIN Pipeline(q),
                        IsHeld(c, p, i), IsHeld(e, q, j)
                 PROVE  c = e
      OBVIOUS
    <2>1. p = q
      BY <1>2, <1>4 DEF Line
    <2>2. i = j
      BY <1>3, <2>1
    <2> QED
      BY <2>1, <2>2
  <1>14. ASSUME NEW f, NEW g, Handled(f), Waits(g)
         PROVE  FALSE
    <2>1. PICK p \in Proc : \E i \in DOMAIN handled[p] : IsHandled(f, p, i)
      BY <1>14
    <2>2. PICK q \in Proc : \E j \in DOMAIN Pipeline(q) : IsHeld(g, q, j)
      BY <1>14
    <2>3. p = q
      BY <1>2, <1>4, <2>1, <2>2 DEF Line
    <2> QED
      BY <1>2, <1>5, <2>1, <2>2, <2>3
  <1>15. Dead(c) /\ Dead(e) => c = e
    BY <1>1 DEF OneDeadLetter
  <1> HIDE DEF Handled, Waits, Dead
  <1> QED
    BY <1>7, <1>9, <1>10, <1>11, <1>12, <1>13, <1>14, <1>15


(* The outcome the refinement mapping computes for an entry is decided by   *)
(* the one place where its result is.                                       *)
LEMMA Outcomes ==
    DeliveryInv => \A id : OutcomeTable(id)
  <1> SUFFICES ASSUME DeliveryInv, NEW id
               PROVE  OutcomeTable(id)
    OBVIOUS
  <1>1. ProcessTyped /\ \A p \in Proc : LineOK(p)
    BY TypedProcesses DEF DeliveryInv, OrderInv, FateInv
  <1>2. ASSUME NEW c \in Copies(id)
        PROVE  Outcome(id) = c[4]
    <2>1. Copies(id) = {c}
      BY OneCopy
    <2>2. Cardinality(Copies(id)) = 1
      BY <2>1, FS_Singleton
    <2>3. (CHOOSE e \in Copies(id) : TRUE) = c
      BY <2>1
    <2> QED
      BY <2>2, <2>3 DEF Outcome
  <1>3. Copies(id) = {} =>
            Outcome(id) = IF id \in Delivered \ pel /\ NeedsNoResult(input[id])
                          THEN "ignored" ELSE "open"
    BY DEF Outcome
  <1>4. Held(id) => Outcome(id) = "queued"
    <2> SUFFICES ASSUME NEW p \in Proc, NEW x \in Undispatched(p),
                        x.id = id, ~x.marker
                 PROVE  Outcome(id) = "queued"
      BY DEF Held
    <2>1. PICK i \in DOMAIN Pipeline(p) : Pipeline(p)[i] = x
      BY <1>1, PipelineFacts DEF Range
    <2>2. <<"held", p, i, "queued">> \in Copies(id)
      BY <2>1, CopyKinds
    <2> QED
      BY <1>2, <2>2
  <1>5. ASSUME NEW ok \in BOOLEAN, Went(id, ok)
        PROVE  Outcome(id) = IF ok THEN "sent" ELSE "lost"
    <2>0. PICK p \in Proc : \E x \in Range(handled[p]) :
              x.id = id /\ ~x.marker /\ x.ok = ok
      BY <1>5 DEF Went
    <2>1. PICK x \in Range(handled[p]) : x.id = id /\ ~x.marker /\ x.ok = ok
      BY <2>0
    <2>2. PICK i \in DOMAIN handled[p] : handled[p][i] = x
      BY DEF Range
    <2>3. <<"handled", p, i, IF ok THEN "sent" ELSE "lost">> \in Copies(id)
      BY <2>1, <2>2, CopyKinds
    <2> QED
      BY <1>2, <2>3
  <1>6. Gone(id) => Outcome(id) = "lost"
    <2> SUFFICES ASSUME Gone(id) PROVE Outcome(id) = "lost"
      OBVIOUS
    <2>1. <<"ended", Nobody, id, "lost">> \in Copies(id)
      BY CopyKinds DEF Gone
    <2> QED
      BY <1>2, <2>1
  <1>7. HasDeadLetter(id) => Outcome(id) = "rejected"
    <2> SUFFICES ASSUME HasDeadLetter(id) PROVE Outcome(id) = "rejected"
      OBVIOUS
    <2>1. PICK k \in DOMAIN dead : dead[k].id = id
      BY DEF HasDeadLetter, Range
    <2>2. <<"dead", Nobody, k, "rejected">> \in Copies(id)
      BY <2>1, CopyKinds
    <2> QED
      BY <1>2, <2>2
  <1>8. Nowhere(id) => Copies(id) = {}
    <2> SUFFICES ASSUME Nowhere(id), NEW c \in Copies(id) PROVE FALSE
      OBVIOUS
    <2>1. CASE \E p \in Proc : \E i \in DOMAIN handled[p] :
                   handled[p][i].id = id /\ ~handled[p][i].marker
      <3>0. PICK p \in Proc : \E i \in DOMAIN handled[p] :
                handled[p][i].id = id /\ ~handled[p][i].marker
        BY <2>1
      <3>1. PICK i \in DOMAIN handled[p] : handled[p][i].id = id /\ ~handled[p][i].marker
        BY <3>0
      <3>2. handled[p][i] \in Range(handled[p])
        BY DEF Range
      <3>3. handled[p][i].ok \in BOOLEAN
        <4>1. handled[p] \in Seq(Dispatch)
          BY <1>1 DEF ProcessTyped, ProcessTypeOK
        <4>2. handled[p][i] \in Dispatch
          BY <4>1, ElementOfSeq, LenProperties
        <4> QED
          BY <4>2 DEF Dispatch
      <3>4. Went(id, TRUE) \/ Went(id, FALSE)
        BY <3>1, <3>2, <3>3 DEF Went
      <3> QED
        BY <3>4 DEF Nowhere
    <2>2. CASE \E p \in Proc : \E i \in DOMAIN Pipeline(p) :
                   Pipeline(p)[i].id = id /\ ~Pipeline(p)[i].marker
      <3>0. PICK p \in Proc : \E i \in DOMAIN Pipeline(p) :
                Pipeline(p)[i].id = id /\ ~Pipeline(p)[i].marker
        BY <2>2
      <3>1. PICK i \in DOMAIN Pipeline(p) : Pipeline(p)[i].id = id /\ ~Pipeline(p)[i].marker
        BY <3>0
      <3>2. Pipeline(p)[i] \in Undispatched(p)
        BY <1>1, PipelineFacts DEF Range
      <3> QED
        BY <3>1, <3>2 DEF Nowhere, Held
    <2>3. CASE \E x \in lost : x.id = id /\ ~x.marker
      BY <2>3 DEF Nowhere, Gone
    <2>4. CASE \E k \in DOMAIN dead : dead[k].id = id
      BY <2>4 DEF Nowhere, HasDeadLetter, Range
    <2> QED
      BY <2>1, <2>2, <2>3, <2>4, CopyKinds
  <1> QED
    BY <1>3, <1>4, <1>5, <1>6, <1>7, <1>8 DEF OutcomeTable


-----------------------------------------------------------------------------
(* DeliveryInv is an inductive invariant.                                   *)

(* Nothing is dead-lettered, read or in hand in the beginning.              *)
LEMMA DeliveryInvInit == Init => DeliveryInv
  <1> SUFFICES ASSUME Init PROVE DeliveryInv
    OBVIOUS
  <1>1. OneDeadLetter
    BY NoElements DEF Init, OneDeadLetter
  <1>2. BusyIsPending
    BY DEF Init, ProcessInit, BusyIsPending, Busy
  <1>3. Len(input) <= MaxEntries
    <2>1. input = <<>> /\ MaxEntries \in Nat
      BY ProcessAssumption DEF Init, ProcessInit
    <2> QED
      BY <2>1, NoElements
  <1> QED
    BY <1>1, <1>2, <1>3, OrderInit DEF DeliveryInv

\* A step that appends no dead letter and acknowledges nothing.
LEMMA DeliveryQuiet ==
    ASSUME DeliveryInv, OrderInv', UNCHANGED <<input, pel, dead>>,
           \A q \in Proc : pc'[q] \in Busy => pc[q] \in Busy /\ cur'[q] = cur[q]
    PROVE  DeliveryInv'
  BY DEF DeliveryInv, OneDeadLetter, BusyIsPending

(* A process adds a dead letter for the entry it holds, which has none yet, *)
(* and lets go of the entry when it acknowledges it.                        *)
LEMMA DeliveryInvNext == DeliveryInv /\ [Next]_vars => DeliveryInv'
  <1> SUFFICES ASSUME DeliveryInv, [Next]_vars
               PROVE  DeliveryInv'
    OBVIOUS
  <1>1. /\ Typed /\ ProcessTyped /\ Owned /\ Pending /\ OrderInv /\ OrderInv'
        /\ OneDeadLetter /\ BusyIsPending /\ Len(input) <= MaxEntries
    BY OrderNext, TypedProcesses DEF DeliveryInv, OrderInv, FateInv
  <1>2. /\ pc \in [Proc -> {"down", "setup", "read", "process", "export",
                            "status", "run", "marker", "dead", "ack", "exited"}]
        /\ cur \in [Proc -> Nat] /\ input \in Seq(Request)
        /\ dead \in Seq(DeadLetter) /\ Len(input) \in Nat
    BY <1>1, LenProperties DEF Typed, TypeOK, ProcessTypeOK
  <1>3. ASSUME NEW p \in Proc, NEW k, pc' = [pc EXCEPT ![p] = k],
               k \notin Busy \/ (pc[p] \in Busy /\ cur' = cur),
               \A q \in Proc \ {p} : cur'[q] = cur[q]
        PROVE  \A q \in Proc : pc'[q] \in Busy =>
                   pc[q] \in Busy /\ cur'[q] = cur[q]
    BY <1>2, <1>3
  <1>4. ASSUME NEW r \in Payloads, Produce(r), UNCHANGED <<groupVars, dead>>
        PROVE  DeliveryInv'
    <2>1. r \in Request /\ MaxEntries \in Nat
      BY ProcessAssumption
    <2>2. Len(input') <= MaxEntries
      BY <1>2, <1>4, <2>1, AppendProperties DEF Produce
    <2> QED
      BY <1>1, <1>4, <2>2
      DEF Produce, consumerVars, groupVars, DeliveryInv, OneDeadLetter, BusyIsPending
  <1>5. ASSUME NEW rk \in RoutingKey, Expire(rk), UNCHANGED <<groupVars, dead>>
        PROVE  DeliveryInv'
    BY <1>1, <1>5, DeliveryQuiet DEF Expire, processVars, consumerVars, groupVars
  <1>6. ASSUME NEW p \in Proc, Start(p)
        PROVE  DeliveryInv'
    <2>1. \A q \in Proc : pc'[q] \in Busy => pc[q] \in Busy /\ cur'[q] = cur[q]
      BY <1>3, <1>6 DEF Start, Begin, Busy
    <2> QED
      BY <1>1, <1>6, <2>1, DeliveryQuiet DEF Start, Begin, groupVars
  <1>7. ASSUME NEW p \in Proc, EnsureConsumerGroup(p)
        PROVE  DeliveryInv'
    <2>1. \A q \in Proc : pc'[q] \in Busy => pc[q] \in Busy /\ cur'[q] = cur[q]
      BY <1>3, <1>7 DEF EnsureConsumerGroup, Busy
    <2> QED
      BY <1>1, <1>7, <2>1, DeliveryQuiet DEF EnsureConsumerGroup
  <1>8. ASSUME NEW p \in Proc, ReadGroup(p)
        PROVE  DeliveryInv'
    <2>1. /\ UNCHANGED <<input, dead>>
          /\ pel' = pel \cup {Len(reads) + 1}
          /\ \/ /\ cur' = [cur EXCEPT ![p] = Len(reads) + 1]
                /\ \E k : pc' = [pc EXCEPT ![p] = k]
             \/ UNCHANGED <<cur, pc>>
      BY <1>8 DEF ReadGroup, AddPending
    <2>2. BusyIsPending'
      BY <1>1, <1>2, <2>1 DEF BusyIsPending
    <2> QED
      BY <1>1, <2>1, <2>2 DEF DeliveryInv, OneDeadLetter
  <1>9. ASSUME NEW p \in Proc, Ack(p)
        PROVE  DeliveryInv'
    <2>1. /\ UNCHANGED <<input, dead>> /\ pc[p] = "ack" /\ pc'[p] = "read"
          /\ pel \ {cur[p]} \subseteq pel'
          /\ \A q \in Proc \ {p} : pc'[q] = pc[q] /\ cur'[q] = cur[q]
      BY <1>2, <1>9 DEF Ack, Continue
    <2>2. \A q \in Proc \ {p} : pc[q] \in Busy => cur[q] # cur[p]
      BY <1>1, <2>1 DEF Owned, Busy
    <2>3. BusyIsPending'
      BY <1>1, <2>1, <2>2 DEF BusyIsPending, Busy
    <2> QED
      BY <1>1, <2>1, <2>3 DEF DeliveryInv, OneDeadLetter
  <1>10. ASSUME NEW p \in Proc, AddDeadLetter(p)
         PROVE  DeliveryInv'
    <2>1. /\ pc[p] = "dead" /\ pc' = [pc EXCEPT ![p] = "ack"]
          /\ UNCHANGED <<input, cur, pel>>
      BY <1>10 DEF AddDeadLetter, groupVars
    <2>2. PICK ok \in BOOLEAN :
              dead' = Append(dead, [id |-> cur[p], reason |-> reason[p],
                                    payload |-> incoming[p], ok |-> ok])
      BY <1>10 DEF AddDeadLetter
    <2> DEFINE d == [id |-> cur[p], reason |-> reason[p],
                     payload |-> incoming[p], ok |-> ok]
    <2>3. d \in DeadLetter
      BY <1>1 DEF ProcessTyped, ProcessTypeOK, DeadLetter
    <2>4. \A i \in 1..Len(dead) : dead[i].id # cur[p]
      <3>1. ~HasDeadLetter(cur[p])
        BY <1>1, <2>1 DEF Pending, PendingOf
      <3>2. DOMAIN dead = 1..Len(dead)
        BY <1>2, LenProperties
      <3> QED
        BY <3>1, <3>2 DEF HasDeadLetter, Range
    <2>5. OneDeadLetter'
      <3>1. d.id = cur[p] /\ dead' = Append(dead, d)
        BY <2>2
      <3> HIDE DEF d
      <3>2. /\ Len(dead') = Len(dead) + 1 /\ DOMAIN dead' = 1..Len(dead')
            /\ \A i \in 1..Len(dead) : dead'[i] = dead[i]
            /\ dead'[Len(dead) + 1] = d /\ Len(dead) \in Nat
            /\ DOMAIN dead = 1..Len(dead)
        BY <1>2, <2>3, <3>1, AppendProperties, LenProperties
      <3>3. ASSUME NEW i \in DOMAIN dead', NEW j \in DOMAIN dead',
                   dead'[i].id = dead'[j].id
            PROVE  i = j
        <4>1. CASE i \in 1..Len(dead) /\ j \in 1..Len(dead)
          BY <1>1, <3>2, <3>3, <4>1 DEF OneDeadLetter
        <4>2. CASE i = Len(dead) + 1 \/ j = Len(dead) + 1
          BY <2>4, <3>1, <3>2, <3>3, <4>2
        <4> QED
          BY <3>2, <4>1, <4>2
      <3> QED
        BY <3>3 DEF OneDeadLetter
    <2>6. BusyIsPending'
      BY <1>1, <1>2, <2>1 DEF BusyIsPending, Busy
    <2> QED
      BY <1>1, <2>1, <2>5, <2>6 DEF DeliveryInv
  <1>11. ASSUME NEW p \in Proc, Shared(p)
         PROVE  DeliveryInv'
    <2>1. UNCHANGED <<pel, dead>>
      BY <1>11 DEF Shared, groupVars
    <2>2. CASE ConsumerStep(p)
      <3>1. /\ pc[p] \in Busy /\ UNCHANGED <<cur, input>>
            /\ \E k : pc' = [pc EXCEPT ![p] = k]
        BY <1>1, <2>2, TriageOutcome
        DEF ConsumerStep, Triage, UpdateEventStatus, RunController, SendMarker,
            ControllerFailed, Busy, ProcessTyped
      <3> QED
        BY <1>1, <1>3, <2>1, <3>1, DeliveryQuiet
    <2>3. CASE WorkerStep(p) \/ WorkerReturn(p)
      BY <1>1, <2>1, <2>3, WorkerMoves, DeliveryQuiet
    <2>4. CASE ConsumerReturn(p) \/ Signal(p)
      <3>1. \A q \in Proc : pc'[q] \in Busy => pc[q] \in Busy /\ cur'[q] = cur[q]
        BY <1>2, <1>3, <2>4 DEF ConsumerReturn, Signal, Busy, consumerVars
      <3> QED
        BY <1>1, <2>1, <2>4, <3>1, DeliveryQuiet DEF ConsumerReturn, Signal
    <2>5. CASE End(p)
      <3>1. \A q \in Proc : pc'[q] \in Busy => pc[q] \in Busy /\ cur'[q] = cur[q]
        BY <1>2, <2>5 DEF End, Busy
      <3> QED
        BY <1>1, <2>1, <2>5, <3>1, DeliveryQuiet DEF End
    <2> QED
      BY <1>11, <2>2, <2>3, <2>4, <2>5 DEF Shared
  <1>12. CASE UNCHANGED vars
    BY <1>1, <1>12, DeliveryQuiet DEF vars, processVars, consumerVars, groupVars
  <1> QED
    BY <1>4, <1>5, <1>6, <1>7, <1>8, <1>9, <1>10, <1>11, <1>12
    DEF Next, ReadNothing


-----------------------------------------------------------------------------
(* How the steps move the outcomes.                                         *)

\* The result of entry id stays where it is.
Stays(id) ==
    /\ Held(id)' <=> Held(id)
    /\ \A ok \in BOOLEAN : Went(id, ok)' <=> Went(id, ok)
    /\ Gone(id)' <=> Gone(id)
    /\ HasDeadLetter(id)' <=> HasDeadLetter(id)

(* The table holds before and after a step.                                 *)
LEMMA TablesNow ==
    ASSUME DeliveryInv, DeliveryInv'
    PROVE  \A id : OutcomeTable(id) /\ OutcomeTable(id)'
  <1>1. DeliveryInv' => (\A id : OutcomeTable(id))'
    BY Outcomes, PTL
  <1> QED
    BY <1>1, Outcomes

(* An entry whose result and dead letter stay where they are keeps its      *)
(* outcome.                                                                 *)
LEMMA SameOutcome ==
    ASSUME DeliveryInv, DeliveryInv', NEW id, Stays(id),
           Nowhere(id) =>
               /\ id \in (Delivered \ pel)' <=> id \in Delivered \ pel
               /\ id \in Delivered \ pel => input'[id] = input[id]
    PROVE  /\ Outcome(id)' = Outcome(id)
           /\ ~Nowhere(id) => Outcome(id) # "open"
  <1>1. OutcomeTable(id) /\ OutcomeTable(id)'
    BY TablesNow
  <1> DEFINE I == id \in Delivered \ pel /\ NeedsNoResult(input[id])
  <1>3. Nowhere(id) => (I' <=> I)
    BY DEF NeedsNoResult
  <1>4. /\ Nowhere(id) => Outcome(id) = IF I THEN "ignored" ELSE "open"
        /\ Nowhere(id)' => Outcome(id)' = IF I' THEN "ignored" ELSE "open"
    BY <1>1 DEF OutcomeTable
  <1> HIDE DEF I
  <1>5. /\ Held(id) => Outcome(id) = "queued"
        /\ Went(id, TRUE) => Outcome(id) = "sent"
        /\ Went(id, FALSE) \/ Gone(id) => Outcome(id) = "lost"
        /\ HasDeadLetter(id) => Outcome(id) = "rejected"
    BY <1>1 DEF OutcomeTable
  <1>6. /\ Held(id)' => Outcome(id)' = "queued"
        /\ Went(id, TRUE)' => Outcome(id)' = "sent"
        /\ Went(id, FALSE)' \/ Gone(id)' => Outcome(id)' = "lost"
        /\ HasDeadLetter(id)' => Outcome(id)' = "rejected"
    BY <1>1 DEF OutcomeTable
  <1>7. Nowhere(id)' <=> Nowhere(id)
    BY DEF Nowhere, Stays
  <1>8. CASE Nowhere(id)
    BY <1>3, <1>4, <1>7, <1>8
  <1>9. CASE ~Nowhere(id)
    <2>1. /\ Held(id)' <=> Held(id)
          /\ Went(id, TRUE)' <=> Went(id, TRUE)
          /\ Went(id, FALSE)' <=> Went(id, FALSE)
          /\ Gone(id)' <=> Gone(id)
          /\ HasDeadLetter(id)' <=> HasDeadLetter(id)
      BY DEF Stays
    <2>2. \/ Held(id) \/ Went(id, TRUE) \/ Went(id, FALSE) \/ Gone(id)
          \/ HasDeadLetter(id)
      BY <1>9 DEF Nowhere
    <2>3. CASE Held(id)
      BY <1>5, <1>6, <2>1, <2>3
    <2>4. CASE Went(id, TRUE)
      BY <1>5, <1>6, <2>1, <2>4
    <2>5. CASE Went(id, FALSE)
      BY <1>5, <1>6, <2>1, <2>5
    <2>6. CASE Gone(id)
      BY <1>5, <1>6, <2>1, <2>6
    <2>7. CASE HasDeadLetter(id)
      BY <1>5, <1>6, <2>1, <2>7
    <2> QED
      BY <2>2, <2>3, <2>4, <2>5, <2>6, <2>7
  <1> QED
    BY <1>8, <1>9

\* Some of the outcomes change.
LEMMA OutcomesMove ==
    ASSUME NEW S \in SUBSET (1..MaxEntries), NEW from, NEW to,
           \A id \in S : Outcome(id) = from /\ Outcome(id)' = to,
           \A id \in (1..MaxEntries) \ S : Outcome(id)' = Outcome(id)
    PROVE  AtMostOnce!Becomes(S, from, to)
  BY DEF AtMostOnce!Becomes

\* Nothing that Delivery shows changes.
LEMMA NothingMoves ==
    ASSUME \A id \in 1..MaxEntries : Outcome(id)' = Outcome(id),
           (Delivered \ pel)' = Delivered \ pel
    PROVE  UNCHANGED AtMostOnce!deliveryVars
  BY DEF AtMostOnce!deliveryVars

\* A step of process p that leaves the result of id where it is.
LEMMA StaysAt ==
    ASSUME NEW p \in Proc, NEW id, UNCHANGED <<lost, dead>>,
           \A q \in Proc \ {p} : /\ Undispatched(q)' = Undispatched(q)
                                 /\ handled'[q] = handled[q],
           (\E x \in Undispatched(p)' : x.id = id /\ ~x.marker)
           <=> (\E x \in Undispatched(p) : x.id = id /\ ~x.marker),
           \A ok \in BOOLEAN :
               (\E x \in Range(handled'[p]) :
                    x.id = id /\ ~x.marker /\ x.ok = ok)
               <=> (\E x \in Range(handled[p]) :
                    x.id = id /\ ~x.marker /\ x.ok = ok)
    PROVE  Stays(id)
  <1>1. Held(id)' <=> Held(id)
    <2>1. \A q \in Proc :
              (\E x \in Undispatched(q)' : x.id = id /\ ~x.marker)
              <=> (\E x \in Undispatched(q) : x.id = id /\ ~x.marker)
      OBVIOUS
    <2> QED
      BY <2>1 DEF Held
  <1>2. \A ok \in BOOLEAN : Went(id, ok)' <=> Went(id, ok)
    <2>1. \A q \in Proc, ok \in BOOLEAN :
              (\E x \in Range(handled'[q]) :
                   x.id = id /\ ~x.marker /\ x.ok = ok)
              <=> (\E x \in Range(handled[q]) :
                   x.id = id /\ ~x.marker /\ x.ok = ok)
      OBVIOUS
    <2> QED
      BY <2>1 DEF Went
  <1>3. Gone(id)' <=> Gone(id)
    BY DEF Gone
  <1>4. HasDeadLetter(id)' <=> HasDeadLetter(id)
    BY DEF HasDeadLetter
  <1> QED
    BY <1>1, <1>2, <1>3, <1>4 DEF Stays

\* A step that moves no result.
LEMMA AllStay ==
    ASSUME UNCHANGED <<queue, wpc, hand, handled, lost>>, NEW id
    PROVE  /\ Held(id)' <=> Held(id)
           /\ \A ok \in BOOLEAN : Went(id, ok)' <=> Went(id, ok)
           /\ Gone(id)' <=> Gone(id)
  <1>1. \A p \in Proc : Undispatched(p)' = Undispatched(p)
    BY DEF Undispatched
  <1> QED
    BY <1>1 DEF Held, Went, Gone

(* A step that moves no result and settles nothing is a stutter of          *)
(* Delivery.                                                                *)
LEMMA StutterMaps ==
    ASSUME DeliveryInv, DeliveryInv', \A id : Stays(id),
           (Delivered \ pel)' = Delivered \ pel,
           \A id \in Delivered : input'[id] = input[id]
    PROVE  UNCHANGED AtMostOnce!deliveryVars
  <1>1. \A id \in 1..MaxEntries : Outcome(id)' = Outcome(id)
    BY SameOutcome
  <1> QED
    BY <1>1, NothingMoves

(* The result of one entry moves and nothing is acknowledged.               *)
LEMMA OneMoves ==
    ASSUME DeliveryInv, DeliveryInv', NEW id \in 1..MaxEntries,
           NEW from, NEW to, Outcome(id) = from, Outcome(id)' = to,
           \A j : j # id => Stays(j),
           UNCHANGED <<input, reads, pel>>
    PROVE  /\ AtMostOnce!Becomes({id}, from, to)
           /\ (Delivered \ pel)' = Delivered \ pel
  <1>1. (Delivered \ pel)' = Delivered \ pel
    BY DEF Delivered
  <1>2. \A j \in (1..MaxEntries) \ {id} : Outcome(j)' = Outcome(j)
    BY <1>1, SameOutcome
  <1> QED
    BY <1>1, <1>2, OutcomesMove

(* The worker sends or loses the result in its hand (worker.go:60-93).      *)
LEMMA WorkerMaps ==
    ASSUME DeliveryInv, DeliveryInv', NEW p \in Proc,
           WorkerStep(p) \/ WorkerReturn(p), UNCHANGED <<groupVars, dead>>
    PROVE  [AtMostOnce!DeliveryNext]_(AtMostOnce!deliveryVars)
  <1>1. ProcessTyped /\ LineOwner /\ Owned /\ Len(input) <= MaxEntries
    BY TypedProcesses DEF DeliveryInv, OrderInv, FateInv
  <1>2. /\ UNCHANGED <<input, lost, reads, pel, dead>>
        /\ \A q \in Proc \ {p} : wpc'[q] = wpc[q] /\ hand'[q] = hand[q]
        /\ Takes(p) \/ (\E d \in Dispatch : Dispatches(p, d)) \/ Rests(p)
    BY <1>1, WorkerMoves DEF groupVars
  <1>3. queue \in [Proc -> Seq(Item)] /\ handled \in [Proc -> Seq(Dispatch)]
    BY <1>1 DEF ProcessTyped, ProcessTypeOK
  <1>4. \A q \in Proc \ {p} : queue'[q] = queue[q] /\ handled'[q] = handled[q]
    BY <1>2, <1>3 DEF Takes, Dispatches, Rests
  <1>5. \A q \in Proc \ {p} : Undispatched(q)' = Undispatched(q)
    BY <1>2, <1>4 DEF Undispatched
  <1>6. (Delivered \ pel)' = Delivered \ pel
    BY <1>2 DEF Delivered
  <1>7. CASE Takes(p) \/ Rests(p)
    <2>1. Undispatched(p)' = Undispatched(p)
      <3>1. CASE Takes(p)
        <4>1. Range(queue[p]) = Range(Tail(queue[p])) \cup {Head(queue[p])}
          BY <1>3, <3>1, RangeOfHeadTail DEF Takes
        <4>2. queue'[p] = Tail(queue[p])
          BY <1>3, <3>1 DEF Takes
        <4> QED
          BY <3>1, <4>1, <4>2 DEF Takes, Undispatched
      <3>2. CASE Rests(p)
        BY <3>2 DEF Rests, Undispatched
      <3> QED
        BY <1>7, <3>1, <3>2
    <2>2. handled' = handled
      BY <1>7 DEF Takes, Rests
    <2>3. \A id : Stays(id)
      BY <1>2, <1>5, <2>1, <2>2, StaysAt
    <2> QED
      BY <1>2, <1>6, <2>3, StutterMaps
  <1>8. ASSUME NEW d \in Dispatch, Dispatches(p, d)
        PROVE  [AtMostOnce!DeliveryNext]_(AtMostOnce!deliveryVars)
    <2>1. /\ d.id = hand[p].id /\ d.marker = hand[p].marker
          /\ d.marker \in BOOLEAN /\ d.ok \in BOOLEAN
          /\ Undispatched(p) = Undispatched(p)' \cup {hand[p]}
          /\ Undispatched(p)' = Range(queue[p])
          /\ Range(handled'[p]) = Range(handled[p]) \cup {d}
      <3>1. handled'[p] = Append(handled[p], d)
        BY <1>3, <1>8 DEF Dispatches
      <3>2. Range(handled'[p]) = Range(handled[p]) \cup {d}
        BY <1>3, <3>1, RangeOfAppend
      <3> QED
        BY <1>8, <3>2 DEF Dispatches, Undispatched, Dispatch
    <2>2. ASSUME NEW id, id # d.id \/ d.marker
          PROVE  Stays(id)
      <3>1. (\E x \in Undispatched(p)' : x.id = id /\ ~x.marker)
            <=> (\E x \in Undispatched(p) : x.id = id /\ ~x.marker)
        BY <2>1, <2>2
      <3>2. \A ok \in BOOLEAN :
               (\E x \in Range(handled'[p]) :
                    x.id = id /\ ~x.marker /\ x.ok = ok)
               <=> (\E x \in Range(handled[p]) :
                    x.id = id /\ ~x.marker /\ x.ok = ok)
        BY <2>1, <2>2
      <3> QED
        BY <1>2, <1>4, <1>5, <3>1, <3>2, StaysAt
    <2>3. CASE d.marker
      BY <1>2, <1>6, <2>2, <2>3, StutterMaps
    <2>4. CASE ~d.marker
      <3>1. d.id \in 1..MaxEntries
        <4>1. hand[p] \in Line(p)
          BY <2>1 DEF Line
        <4>2. d.id \in 1..Len(reads) /\ Len(reads) <= Len(input)
          BY <1>1, <2>1, <4>1 DEF LineOwner, Owned
        <4>3. Len(reads) \in Nat /\ Len(input) \in Nat /\ MaxEntries \in Nat
          BY LenProperties, ProcessAssumption
          DEF DeliveryInv, OrderInv, FateInv, Typed, TypeOK, ProcessTypeOK
        <4> QED
          BY <1>1, <4>2, <4>3
      <3>2. Held(d.id) /\ Went(d.id, d.ok)'
        BY <2>1, <2>4 DEF Held, Went
      <3>3. OutcomeTable(d.id) /\ OutcomeTable(d.id)'
        BY TablesNow
      <3>4. /\ Outcome(d.id) = "queued"
            /\ Outcome(d.id)' = IF d.ok THEN "sent" ELSE "lost"
        <4>1. Outcome(d.id) = "queued"
          BY <3>2, <3>3 DEF OutcomeTable
        <4>2. CASE d.ok
          <5>1. Went(d.id, TRUE)'
            BY <2>1, <3>2, <4>2
          <5> QED
            BY <3>3, <4>1, <4>2, <5>1 DEF OutcomeTable
        <4>3. CASE ~d.ok
          <5>1. Went(d.id, FALSE)'
            BY <2>1, <3>2, <4>3
          <5> QED
            BY <3>3, <4>1, <4>3, <5>1 DEF OutcomeTable
        <4> QED
          BY <4>2, <4>3
      <3>5. /\ AtMostOnce!Becomes({d.id}, "queued",
                                  IF d.ok THEN "sent" ELSE "lost")
            /\ (Delivered \ pel)' = Delivered \ pel
        BY <1>2, <2>2, <3>1, <3>4, OneMoves
      <3>6. CASE d.ok
        BY <3>1, <3>5, <3>6 DEF AtMostOnce!DeliveryNext, AtMostOnce!Send
      <3>7. CASE ~d.ok
        <4>1. {d.id} \in SUBSET (1..MaxEntries)
          BY <3>1
        <4> QED
          BY <3>5, <3>7, <4>1 DEF AtMostOnce!DeliveryNext, AtMostOnce!Lose
      <3> QED
        BY <3>6, <3>7
    <2> QED
      BY <2>3, <2>4
  <1> QED
    BY <1>2, <1>7, <1>8

(* The entry a process works on has no outcome yet.                         *)
LEMMA CurIsOpen ==
    ASSUME DeliveryInv, NEW p \in Proc, pc[p] = "run" \/ pc[p] = "dead"
    PROVE  /\ cur[p] \in 1..MaxEntries
           /\ Nowhere(cur[p])
           /\ Outcome(cur[p]) = "open"
  <1>1. /\ Typed /\ Owned /\ PendingOf(p) /\ BusyIsPending
        /\ Len(input) <= MaxEntries
    BY DEF DeliveryInv, OrderInv, FateInv, Pending
  <1>2. cur[p] \in 1..MaxEntries
    <2>1. cur[p] \in 1..Len(reads) /\ Len(reads) <= Len(input)
      BY <1>1 DEF Owned, Busy
    <2>2. Len(reads) \in Nat /\ Len(input) \in Nat /\ MaxEntries \in Nat
      BY <1>1, LenProperties, ProcessAssumption DEF Typed, TypeOK, ProcessTypeOK
    <2> QED
      BY <1>1, <2>1, <2>2
  <1>3. Nowhere(cur[p])
    <2>1. ~HasItem(cur[p]) /\ ~HasDeadLetter(cur[p])
      BY <1>1 DEF PendingOf
    <2>2. \A q \in Proc : \A x \in Line(q) :
              x.id = cur[p] => x.marker
      <3>1. \A q \in Proc : \A x \in Line(q) : x.marker \in BOOLEAN
        BY <1>1, LineTypes, TypedProcesses
      <3> QED
        BY <2>1, <3>1 DEF HasItem, Queued, Line
    <2>3. \A x \in lost : x.id = cur[p] => x.marker
      <3>1. \A x \in lost : x.marker \in BOOLEAN
        BY <1>1 DEF Typed, TypeOK, ProcessTypeOK, Item
      <3> QED
        BY <2>1, <3>1 DEF HasItem, Queued
    <2> QED
      BY <2>1, <2>2, <2>3 DEF Nowhere, Held, Went, Gone, Line
  <1>4. cur[p] \in pel
    BY <1>1 DEF BusyIsPending, Busy
  <1>5. OutcomeTable(cur[p])
    BY Outcomes
  <1>6. Outcome(cur[p]) = "open"
    BY <1>3, <1>4, <1>5 DEF OutcomeTable
  <1> QED
    BY <1>2, <1>3, <1>6

(* The strategy puts the result on the sender queue (stub.go:34); a         *)
(* completion marker is no result.                                          *)
LEMMA PushMaps ==
    ASSUME DeliveryInv, DeliveryInv', NEW p \in Proc,
           RunController(p) \/ SendMarker(p), UNCHANGED <<groupVars, dead>>
    PROVE  [AtMostOnce!DeliveryNext]_(AtMostOnce!deliveryVars)
  <1>1. ProcessTyped
    BY TypedProcesses DEF DeliveryInv, OrderInv, FateInv
  <1>2. /\ pc[p] \in {"run", "marker"}
        /\ UNCHANGED <<input, wpc, hand, handled, lost, reads, pel, dead>>
    BY DEF RunController, SendMarker, workerVars, groupVars
  <1>3. DataItem(p) \in Item /\ MarkerItem(p) \in Item
    BY <1>1, <1>2, DataItemType
  <1>4. queue \in [Proc -> Seq(Item)]
    BY <1>1 DEF ProcessTyped, ProcessTypeOK
  <1>5. (Delivered \ pel)' = Delivered \ pel
    BY <1>2 DEF Delivered
  <1>6. CASE queue' = queue
    <2>1. \A id : Stays(id)
      BY <1>2, <1>6, AllStay DEF Stays, HasDeadLetter
    <2> QED
      BY <1>2, <1>5, <2>1, StutterMaps
  <1>7. ASSUME NEW it \in Item, queue' = [queue EXCEPT ![p] = Append(@, it)]
        PROVE  /\ Undispatched(p)' = Undispatched(p) \cup {it}
               /\ \A id : id # it.id \/ it.marker => Stays(id)
    <2>1. queue'[p] = Append(queue[p], it)
      BY <1>4, <1>7
    <2>2. Range(queue'[p]) = Range(queue[p]) \cup {it}
      BY <1>4, <2>1, RangeOfAppend
    <2>3. Undispatched(p)' = Undispatched(p) \cup {it}
      BY <1>2, <2>2 DEF Undispatched
    <2>4. \A q \in Proc \ {p} : Undispatched(q)' = Undispatched(q)
      BY <1>2, <1>4, <1>7 DEF Undispatched
    <2>5. ASSUME NEW id, id # it.id \/ it.marker
          PROVE  Stays(id)
      <3>1. (\E x \in Undispatched(p)' : x.id = id /\ ~x.marker)
            <=> (\E x \in Undispatched(p) : x.id = id /\ ~x.marker)
        BY <2>3, <2>5
      <3> QED
        BY <1>2, <2>4, <3>1, StaysAt
    <2> QED
      BY <2>3, <2>5
  <1>8. CASE RunController(p) /\ queue' # queue
    <2>1. pc[p] = "run" /\ queue' = [queue EXCEPT ![p] = Append(@, DataItem(p))]
      BY <1>8 DEF RunController
    <2>2. DataItem(p).id = cur[p] /\ DataItem(p).marker = FALSE
      BY DEF DataItem
    <2>3. DataItem(p) \in Undispatched(p)' /\ \A id : id # cur[p] => Stays(id)
      BY <1>3, <1>7, <2>1, <2>2
    <2>5. cur[p] \in 1..MaxEntries /\ Outcome(cur[p]) = "open"
      BY <2>1, CurIsOpen
    <2>7. PICK j : j = cur[p]
      OBVIOUS
    <2>8. OutcomeTable(j)' /\ Held(j)'
      <3>1. \E q \in Proc : \E x \in Undispatched(q)' : x.id = j /\ ~x.marker
        BY <2>2, <2>3, <2>7
      <3> QED
        BY <3>1, TablesNow DEF Held
    <2>9. Outcome(j)' = "queued"
      BY <2>8 DEF OutcomeTable
    <2>10. AtMostOnce!Enqueue(j)
      BY <1>2, <2>3, <2>5, <2>7, <2>9, OneMoves DEF AtMostOnce!Enqueue
    <2> QED
      BY <2>5, <2>7, <2>10 DEF AtMostOnce!DeliveryNext
  <1>9. CASE SendMarker(p) /\ queue' # queue
    <2>1. queue' = [queue EXCEPT ![p] = Append(@, MarkerItem(p))]
      BY <1>9 DEF SendMarker
    <2>2. MarkerItem(p).marker
      BY DEF MarkerItem
    <2>3. \A id : Stays(id)
      BY <1>3, <1>7, <2>1, <2>2
    <2> QED
      BY <1>2, <1>5, <2>3, StutterMaps
  <1> QED
    BY <1>6, <1>8, <1>9

(* deadLetter rejects the request (consumer.go:210-222).                 *)
LEMMA DeadLetterMaps ==
    ASSUME DeliveryInv, DeliveryInv', NEW p \in Proc, AddDeadLetter(p)
    PROVE  [AtMostOnce!DeliveryNext]_(AtMostOnce!deliveryVars)
  <1>1. Typed
    BY DEF DeliveryInv, OrderInv, FateInv
  <1>2. /\ pc[p] = "dead"
        /\ UNCHANGED <<input, queue, wpc, hand, handled, lost, reads, pel>>
    BY DEF AddDeadLetter, workerVars, groupVars
  <1>3. PICK d : d.id = cur[p] /\ d \in DeadLetter /\ dead' = Append(dead, d)
    <2>1. PICK ok \in BOOLEAN :
              dead' = Append(dead, [id |-> cur[p], reason |-> reason[p],
                                    payload |-> incoming[p], ok |-> ok])
      BY DEF AddDeadLetter
    <2>2. [id |-> cur[p], reason |-> reason[p], payload |-> incoming[p],
           ok |-> ok] \in DeadLetter
      BY <1>1 DEF Typed, TypeOK, ProcessTypeOK, DeadLetter
    <2> QED
      BY <2>1, <2>2
  <1>4. Range(dead') = Range(dead) \cup {d}
    BY <1>1, <1>3, RangeOfAppend DEF Typed, TypeOK
  <1>5. \A id : HasDeadLetter(id)' <=> HasDeadLetter(id) \/ id = d.id
    BY <1>4 DEF HasDeadLetter
  <1>6. \A id : id # d.id => Stays(id)
    BY <1>2, <1>5, AllStay DEF Stays
  <1>7. d.id \in 1..MaxEntries /\ Outcome(d.id) = "open"
    BY <1>2, <1>3, CurIsOpen
  <1>8. Outcome(d.id)' = "rejected"
    <2>1. OutcomeTable(d.id)' /\ HasDeadLetter(d.id)'
      BY <1>5, TablesNow
    <2> QED
      BY <2>1 DEF OutcomeTable
  <1>9. AtMostOnce!Reject(d.id)
    BY <1>2, <1>6, <1>7, <1>8, OneMoves DEF AtMostOnce!Reject
  <1> QED
    BY <1>7, <1>9 DEF AtMostOnce!DeliveryNext


(* A process that ends loses the results it held.                           *)
LEMMA EndMaps ==
    ASSUME DeliveryInv, DeliveryInv', NEW p \in Proc, End(p),
           UNCHANGED <<groupVars, dead>>
    PROVE  [AtMostOnce!DeliveryNext]_(AtMostOnce!deliveryVars)
  <1>1. ProcessTyped
    BY TypedProcesses DEF DeliveryInv, OrderInv, FateInv
  <1>2. /\ lost' = lost \cup Undispatched(p) /\ handled' = handled
        /\ UNCHANGED <<input, reads, pel, dead>>
        /\ queue'[p] = <<>> /\ wpc'[p] = "idle"
        /\ \A q \in Proc \ {p} : /\ queue'[q] = queue[q]
                                 /\ wpc'[q] = wpc[q] /\ hand'[q] = hand[q]
    BY <1>1 DEF End, WorkerDone, ProcessTyped, ProcessTypeOK, groupVars
  <1>3. Undispatched(p)' = {}
    BY <1>2, RangeOfEmpty DEF Undispatched
  <1>4. \A q \in Proc \ {p} : Undispatched(q)' = Undispatched(q)
    BY <1>2 DEF Undispatched
  <1>5. (Delivered \ pel)' = Delivered \ pel
    BY <1>2 DEF Delivered
  <1> DEFINE HeldHere(id) == \E x \in Undispatched(p) : x.id = id /\ ~x.marker
             S == {id \in 1..MaxEntries : HeldHere(id)}
  <1>6. ASSUME NEW id, HeldHere(id)
        PROVE  Outcome(id) = "queued" /\ Outcome(id)' = "lost"
    <2>1. OutcomeTable(id) /\ OutcomeTable(id)'
      BY TablesNow
    <2>2. Held(id)
      BY <1>6 DEF Held
    <2>3. Gone(id)'
      BY <1>2, <1>6 DEF Gone
    <2>4. Outcome(id) = "queued"
      BY <2>1, <2>2 DEF OutcomeTable
    <2>5. Outcome(id)' = "lost"
      BY <2>1, <2>3 DEF OutcomeTable
    <2> QED
      BY <2>4, <2>5
  <1>7. ASSUME NEW id, ~HeldHere(id)
        PROVE  Outcome(id)' = Outcome(id)
    <2>1. Held(id)' <=> Held(id)
      BY <1>3, <1>4, <1>7 DEF Held
    <2>2. Gone(id)' <=> Gone(id)
      BY <1>2, <1>7 DEF Gone
    <2>3. \A ok \in BOOLEAN : Went(id, ok)' <=> Went(id, ok)
      BY <1>2 DEF Went
    <2>4. HasDeadLetter(id)' <=> HasDeadLetter(id)
      BY <1>2 DEF HasDeadLetter
    <2>5. Stays(id)
      BY <2>1, <2>2, <2>3, <2>4 DEF Stays
    <2> QED
      BY <1>2, <1>5, <2>5, SameOutcome
  <1> HIDE DEF HeldHere
  <1>8. S \in SUBSET (1..MaxEntries)
    OBVIOUS
  <1>9. AtMostOnce!Becomes(S, "queued", "lost")
    BY <1>6, <1>7, <1>8, OutcomesMove
  <1> QED
    BY <1>5, <1>8, <1>9 DEF AtMostOnce!DeliveryNext, AtMostOnce!Lose

(* XACK settles a request whose outcome is decided, or decides that it is   *)
(* ignored.                                                                 *)
LEMMA AckMaps ==
    ASSUME DeliveryInv, DeliveryInv', NEW p \in Proc, Ack(p)
    PROVE  [AtMostOnce!DeliveryNext]_(AtMostOnce!deliveryVars)
  <1>1. /\ Typed /\ Owned /\ PendingOf(p) /\ BusyIsPending
        /\ Len(input) <= MaxEntries
    BY DEF DeliveryInv, OrderInv, FateInv, Pending
  <1>2. /\ pc[p] = "ack" /\ (pel' = pel \ {cur[p]} \/ pel' = pel)
        /\ UNCHANGED <<input, queue, wpc, hand, handled, lost, reads, dead>>
    BY DEF Ack, workerVars
  <1>3. \A id : Stays(id)
    BY <1>2, AllStay DEF Stays, HasDeadLetter
  <1>4. CASE pel' = pel
    <2>1. (Delivered \ pel)' = Delivered \ pel
      BY <1>2, <1>4 DEF Delivered
    <2> QED
      BY <1>2, <1>3, <2>1, StutterMaps
  <1>5. CASE pc[p] = "ack" /\ pel' = pel \ {cur[p]}
    <2>1. PICK i : i = cur[p]
      OBVIOUS
    <2>2. i \in 1..Len(reads) /\ reads[i] = p /\ Len(reads) <= Len(input)
      BY <1>1, <1>5, <2>1 DEF Owned, Busy
    <2>3. i \in 1..MaxEntries
      <3>1. Len(reads) \in Nat /\ Len(input) \in Nat /\ MaxEntries \in Nat
        BY <1>1, LenProperties, ProcessAssumption
        DEF Typed, TypeOK, ProcessTypeOK
      <3> QED
        BY <1>1, <2>2, <3>1
    <2>4. i \in Delivered /\ i \in pel
      BY <1>1, <1>5, <2>1, <2>2, RedisAssumption
      DEF Delivered, BusyIsPending, Busy
    <2>5. (Delivered \ pel)' = (Delivered \ pel) \cup {i}
      BY <1>2, <1>5, <2>1, <2>4 DEF Delivered
    <2>6. \A j \in (1..MaxEntries) \ {i} : Outcome(j)' = Outcome(j)
      BY <1>2, <1>3, <2>5, SameOutcome
    <2>7. OutcomeTable(i) /\ OutcomeTable(i)'
      BY TablesNow
    <2>8. CASE Nowhere(i)
      <3>1. ~HasItem(i) /\ ~HasDeadLetter(i)
        <4>1. ~HasDeadLetter(i)
          BY <2>8 DEF Nowhere
        <4>2. ASSUME NEW q \in Proc, NEW x \in Range(handled[q]),
                     x.id = i, ~x.marker
              PROVE  FALSE
          <5>1. handled[q] \in Seq(Dispatch)
            BY <1>1 DEF Typed, TypeOK, ProcessTypeOK
          <5>2. x \in Dispatch
            BY <5>1, ElementOfSeq, LenProperties DEF Range
          <5>3. x.ok \in BOOLEAN
            BY <5>2 DEF Dispatch
          <5> QED
            BY <2>8, <4>2, <5>3 DEF Nowhere, Went
        <4> QED
          BY <2>8, <4>1, <4>2 DEF Nowhere, Held, Gone, HasItem, Queued
      <3>2. NeedsNoResult(input[i])
        BY <1>1, <1>5, <2>1, <3>1 DEF PendingOf, Accounted
      <3>3. Nowhere(i)'
        BY <1>3, <2>8 DEF Nowhere, Stays
      <3>4. NeedsNoResult(input[i])'
        BY <1>2, <3>2 DEF NeedsNoResult
      <3>5. Outcome(i) = "open" /\ Outcome(i)' = "ignored"
        <4>1. i \in (Delivered \ pel)'
          BY <2>5
        <4>2. Outcome(i) = "open"
          BY <2>4, <2>7, <2>8 DEF OutcomeTable
        <4>3. Outcome(i)' = "ignored"
          BY <2>7, <3>3, <3>4, <4>1 DEF OutcomeTable
        <4> QED
          BY <4>2, <4>3
      <3>6. {i} \in SUBSET (1..MaxEntries)
        BY <2>3
      <3>7. AtMostOnce!Becomes({i}, "open", "ignored")
        BY <2>6, <3>5, <3>6, OutcomesMove
      <3> QED
        BY <2>3, <2>5, <3>7 DEF AtMostOnce!DeliveryNext, AtMostOnce!Ignore
    <2>9. CASE ~Nowhere(i)
      <3>5. Outcome(i)' = Outcome(i) /\ Outcome(i) # "open"
        BY <1>3, <2>9, SameOutcome
      <3>6. AtMostOnce!Settle(i)
        <4>1. [id \in 1..MaxEntries |-> Outcome(id)]'
                  = [id \in 1..MaxEntries |-> Outcome(id)]
          BY <2>6, <3>5
        <4>2. i \notin Delivered \ pel
          BY <2>4
        <4> QED
          BY <2>3, <2>5, <3>5, <4>1, <4>2 DEF AtMostOnce!Settle
      <3> QED
        BY <2>3, <3>6 DEF AtMostOnce!DeliveryNext
    <2> QED
      BY <2>8, <2>9
  <1> QED
    BY <1>2, <1>4, <1>5

(* Reading an entry and creating the group settle nothing.                  *)
LEMMA GroupMaps ==
    ASSUME DeliveryInv, DeliveryInv', NEW p \in Proc,
           ReadGroup(p) \/ EnsureConsumerGroup(p)
    PROVE  UNCHANGED AtMostOnce!deliveryVars
  <1>1. Typed /\ Owned
    BY DEF DeliveryInv, OrderInv, FateInv
  <1>2. UNCHANGED <<input, queue, wpc, hand, handled, lost, dead>>
    BY DEF ReadGroup, EnsureConsumerGroup, workerVars
  <1>3. \A id : Stays(id)
    BY <1>2, AllStay DEF Stays, HasDeadLetter
  <1>4. reads \in Seq(Proc \cup {Nobody}) /\ Len(reads) \in Nat
    BY <1>1, LenProperties DEF Typed, TypeOK
  <1>5. (Delivered \ pel)' = Delivered \ pel
    <2>1. CASE ReadGroup(p)
      <3>1. reads' = Append(reads, p) /\ pel' = pel \cup {Len(reads) + 1}
        BY <2>1 DEF ReadGroup, AddPending
      <3>2. /\ Len(reads') = Len(reads) + 1
            /\ \A i \in 1..Len(reads) : reads'[i] = reads[i]
        BY <1>4, <3>1, AppendProperties
      <3> QED
        BY <1>4, <3>1, <3>2 DEF Delivered
    <2>2. CASE EnsureConsumerGroup(p)
      <3>1. pel' = pel
        BY <2>2 DEF EnsureConsumerGroup
      <3>2. CASE reads' = reads
        BY <3>1, <3>2 DEF Delivered
      <3>3. CASE ~group /\ reads' = [i \in 1..Len(input) |-> Nobody]
        <4>1. Delivered = {}
          BY <1>1, <3>3, NoElements DEF Owned, Delivered
        <4>2. Len(input) \in Nat
          BY <1>1, LenProperties DEF Typed, TypeOK, ProcessTypeOK
        <4>3. Len(reads') = Len(input)
          BY <3>3, <4>2
        <4>4. Delivered' = {}
          BY <3>3, <4>3 DEF Delivered
        <4> QED
          BY <4>1, <4>4
      <3> QED
        BY <2>2, <3>2, <3>3 DEF EnsureConsumerGroup, CreateGroup
    <2> QED
      BY <2>1, <2>2
  <1> QED
    BY <1>2, <1>3, <1>5, StutterMaps

(* Every step maps to a step of Delivery or to a stutter.                   *)
LEMMA DeliveryStep ==
    DeliveryInv /\ DeliveryInv' /\ [Next]_vars
        => [AtMostOnce!DeliveryNext]_(AtMostOnce!deliveryVars)
  <1> SUFFICES ASSUME DeliveryInv, DeliveryInv', [Next]_vars
               PROVE  [AtMostOnce!DeliveryNext]_(AtMostOnce!deliveryVars)
    OBVIOUS
  <1>1. Typed /\ Owned
    BY DEF DeliveryInv, OrderInv, FateInv
  <1>2. ASSUME UNCHANGED <<queue, wpc, hand, handled, lost, reads, pel, dead>>,
               \A id \in Delivered : input'[id] = input[id]
        PROVE  UNCHANGED AtMostOnce!deliveryVars
    <2>1. \A id : Stays(id)
      BY <1>2, AllStay DEF Stays, HasDeadLetter
    <2>2. (Delivered \ pel)' = Delivered \ pel
      BY <1>2 DEF Delivered
    <2> QED
      BY <1>2, <2>1, <2>2, StutterMaps
  <1>3. ASSUME NEW r \in Payloads, Produce(r), UNCHANGED <<groupVars, dead>>
        PROVE  UNCHANGED AtMostOnce!deliveryVars
    <2>1. r \in Request /\ input \in Seq(Request) /\ Len(reads) <= Len(input)
      BY <1>1, ProcessAssumption DEF Typed, TypeOK, ProcessTypeOK, Owned
    <2>2. Len(reads) \in Nat /\ Len(input) \in Nat
      BY <1>1, LenProperties DEF Typed, TypeOK, ProcessTypeOK
    <2>3. \A id \in Delivered : input'[id] = input[id]
      BY <1>3, <2>1, <2>2, AppendProperties DEF Produce, Delivered
    <2> QED
      BY <1>2, <1>3, <2>3 DEF Produce, workerVars, groupVars
  <1>4. ASSUME NEW rk \in RoutingKey, Expire(rk), UNCHANGED <<groupVars, dead>>
        PROVE  UNCHANGED AtMostOnce!deliveryVars
    BY <1>2, <1>4 DEF Expire, processVars, workerVars, groupVars
  <1>5. ASSUME NEW p \in Proc, Start(p)
        PROVE  UNCHANGED AtMostOnce!deliveryVars
    BY <1>2, <1>5 DEF Start, Begin, workerVars, groupVars
  <1>6. ASSUME NEW p \in Proc, Shared(p)
        PROVE  [AtMostOnce!DeliveryNext]_(AtMostOnce!deliveryVars)
    <2>1. CASE Triage(p) \/ UpdateEventStatus(p) \/ ConsumerReturn(p) \/ Signal(p)
      BY <1>2, <1>6, <2>1 DEF Shared, Triage, UpdateEventStatus, ConsumerReturn,
                              Signal, workerVars, groupVars
    <2> QED
      BY <1>6, <2>1, WorkerMaps, PushMaps, EndMaps DEF Shared, ConsumerStep
  <1>7. CASE UNCHANGED vars
    BY <1>2, <1>7 DEF vars, processVars, workerVars, groupVars
  <1> QED
    BY <1>3, <1>4, <1>5, <1>6, <1>7, GroupMaps, AckMaps, DeadLetterMaps
    DEF Next, ReadNothing

(* The Redis mode implements at-most-once delivery, for any number of       *)
(* processes, entries and faults: a request's result is queued once and     *)
(* then sent or lost, or it is dead-lettered or ignored and then nothing is *)
(* sent, and it is acknowledged only when one of these is decided           *)
(* (consumer.go:72-115, worker.go:45-136).                                  *)
THEOREM ImplementsDeliveryHolds == Spec => ImplementsDelivery
  <1>1. Init => AtMostOnce!DeliveryInit
    <2> SUFFICES ASSUME Init PROVE AtMostOnce!DeliveryInit
      OBVIOUS
    <2>1. Delivered = {}
      BY NoElements DEF Init, Delivered
    <2>2. ASSUME NEW id
          PROVE  Outcome(id) = "open"
      <3>1. OutcomeTable(id)
        BY DeliveryInvInit, Outcomes
      <3>2. \A p \in Proc : Undispatched(p) = {} /\ Range(handled[p]) = {}
        BY RangeOfEmpty DEF Init, ProcessInit, Undispatched
      <3>3. Nowhere(id)
        BY <3>2, RangeOfEmpty
        DEF Init, ProcessInit, Nowhere, Held, Went, Gone, HasDeadLetter
      <3> QED
        BY <2>1, <3>1, <3>3 DEF OutcomeTable
    <2> QED
      BY <2>1, <2>2 DEF AtMostOnce!DeliveryInit
  <1> QED
    BY <1>1, DeliveryInvInit, DeliveryInvNext, DeliveryStep, PTL
    DEF Spec, ImplementsDelivery, AtMostOnce!DeliverySpec

-----------------------------------------------------------------------------
(* Completion markers without a signal or a timeout.                        *)

Undisturbed == Faults \cap {"timeout", "signal"} = {}

\* No process is being stopped, and one that is about to acknowledge an API
\* request whose result it queued has queued the marker too.
MarkedAt(p) ==
    /\ mode[p] # "stopping"
    /\ pc[p] = "ack" /\ Buffered(input[cur[p]]) /\ HasItem(cur[p])
           => HasMarker(cur[p])

MarkInv ==
    /\ DeliveryInv /\ ReplayInv
    /\ Undisturbed => (\A p \in Proc : MarkedAt(p)) /\ AckedApiRequestIsMarked

(* A step of p that queues no result but of the request p holds, takes no   *)
(* marker back and acknowledges nothing.                                    *)
LEMMA MarkQuiet ==
    ASSUME MarkInv, Undisturbed, NEW p \in Proc,
           \A i \in Delivered : input'[i] = input[i],
           (Delivered \ pel)' \subseteq Delivered \ pel,
           \A id : HasMarker(id) => HasMarker(id)',
           \A id : HasItem(id)' => HasItem(id) \/ (pc[p] \in Busy /\ id = cur[p]),
           \A q \in Proc \ {p} : /\ mode'[q] = mode[q]
                                 /\ pc'[q] = pc[q] /\ cur'[q] = cur[q],
           MarkedAt(p)'
    PROVE  (\A q \in Proc : MarkedAt(q)') /\ AckedApiRequestIsMarked'
  <1>1. /\ Owned /\ BusyIsPending /\ AckedApiRequestIsMarked
        /\ \A q \in Proc : MarkedAt(q)
    BY DEF MarkInv, DeliveryInv, OrderInv, FateInv
  <1>2. AckedApiRequestIsMarked'
    <2> SUFFICES ASSUME NEW id \in (Delivered \ pel)', Buffered(input'[id]),
                        HasItem(id)'
                 PROVE  HasMarker(id)'
      BY DEF AckedApiRequestIsMarked
    <2>1. id \in Delivered \ pel /\ input'[id] = input[id]
      OBVIOUS
    <2>2. HasItem(id)
      BY <1>1, <2>1 DEF BusyIsPending
    <2> QED
      BY <1>1, <2>1, <2>2 DEF AckedApiRequestIsMarked
  <1>3. ASSUME NEW q \in Proc \ {p}
        PROVE  MarkedAt(q)'
    <2>1. /\ mode'[q] = mode[q] /\ pc'[q] = pc[q] /\ cur'[q] = cur[q]
          /\ MarkedAt(q)
      BY <1>1
    <2>2. CASE pc[q] = "ack"
      <3>1. /\ cur[q] \in 1..Len(reads) /\ reads[cur[q]] = q
            /\ pc[p] \in Busy => cur[p] # cur[q]
        BY <1>1, <2>2 DEF Owned, Busy
      <3>2. cur[q] \in Delivered
        BY <3>1, RedisAssumption DEF Delivered
      <3>3. input'[cur[q]] = input[cur[q]] /\ (HasItem(cur[q])' => HasItem(cur[q]))
        BY <3>1, <3>2
      <3> QED
        BY <2>1, <3>3 DEF MarkedAt
    <2>3. CASE pc[q] # "ack"
      BY <2>1, <2>3 DEF MarkedAt
    <2> QED
      BY <2>2, <2>3
  <1> QED
    BY <1>2, <1>3

(* No process is at work yet and nothing was read.                          *)
LEMMA MarkInit == Init => MarkInv
  <1> SUFFICES ASSUME Init PROVE MarkInv
    OBVIOUS
  <1>1. \A p \in Proc : MarkedAt(p)
    BY DEF Init, ProcessInit, MarkedAt
  <1>2. AckedApiRequestIsMarked
    <2>1. reads = <<>>
      BY DEF Init
    <2>2. Delivered = {}
      BY <2>1, NoElements DEF Delivered
    <2> QED
      BY <2>2 DEF AckedApiRequestIsMarked
  <1> QED
    BY <1>1, <1>2, DeliveryInvInit, ReplayInit DEF MarkInv

(* ProcessMessage reaches the acknowledgement without a result, with a      *)
(* result that needs no marker, or past the select that waited for room.    *)
LEMMA MarkConsumer ==
    ASSUME MarkInv, Undisturbed, NEW p \in Proc, ConsumerStep(p),
           UNCHANGED <<groupVars, dead>>
    PROVE  (\A q \in Proc : MarkedAt(q)') /\ AckedApiRequestIsMarked'
  <1>1. /\ Typed /\ ProcessTyped /\ FateInv /\ PendingOf(p) /\ CarriedOf(p)
        /\ MarkedAt(p)
    BY TypedProcesses DEF MarkInv, ReplayInv, FateInv, Pending
  <1>2. /\ pc \in [Proc -> {"down", "setup", "read", "process", "export",
                            "status", "run", "marker", "dead", "ack", "exited"}]
        /\ cur \in [Proc -> Nat] /\ incoming \in [Proc -> Request]
    BY <1>1 DEF ProcessTyped, ProcessTypeOK
  <1>3. /\ UNCHANGED <<input, cur, mode, reads, pel>> /\ pc[p] \in Busy
        /\ UNCHANGED <<wpc, hand, handled, lost>>
    BY DEF ConsumerStep, Triage, UpdateEventStatus, RunController, SendMarker,
           Busy, groupVars, workerVars
  <1>4. input[cur[p]] \in Request /\ ~RunCtxDone(p)
    <2>1. input[cur[p]] \in Request
      BY <1>1, <1>3, CurIsEntry
    <2> QED
      BY <1>1, <2>1 DEF MarkedAt, RunCtxDone, Undisturbed
  <1>5. ASSUME MarkedAt(p)',
               \A id : HasMarker(id) => HasMarker(id)',
               \A id : HasItem(id)' => HasItem(id) \/ id = cur[p],
               \A q \in Proc \ {p} : pc'[q] = pc[q]
        PROVE  (\A q \in Proc : MarkedAt(q)') /\ AckedApiRequestIsMarked'
    BY <1>3, <1>5, MarkQuiet DEF Delivered
  <1>6. CASE Triage(p)
    <2>1. PICK k \in {"ack", "export", "dead", "status", "run"} :
              pc' = [pc EXCEPT ![p] = k]
      BY <1>1, <1>6, TriageOutcome DEF ProcessTyped
    <2>2. \A id : (HasItem(id)' <=> HasItem(id)) /\ (HasMarker(id)' <=> HasMarker(id))
      BY <1>3, <1>6, QueuedUnchanged DEF Triage, HasItem, HasMarker
    <2>3. ~HasItem(cur[p])
      BY <1>1, <1>6 DEF Triage, PendingOf
    <2>4. MarkedAt(p)'
      BY <1>1, <1>3, <2>2, <2>3 DEF MarkedAt
    <2> QED
      BY <1>2, <1>5, <2>1, <2>2, <2>4
  <1>7. CASE UpdateEventStatus(p)
    <2>1. pc' = [pc EXCEPT ![p] = "run"] /\ queue' = queue
      BY <1>7 DEF UpdateEventStatus
    <2>2. \A id : (HasItem(id)' <=> HasItem(id)) /\ (HasMarker(id)' <=> HasMarker(id))
      BY <1>3, <2>1, QueuedUnchanged DEF HasItem, HasMarker
    <2>3. MarkedAt(p)'
      BY <1>1, <1>2, <1>3, <2>1 DEF MarkedAt
    <2> QED
      BY <1>2, <1>5, <2>1, <2>2, <2>3
  <1>8. CASE RunController(p)
    <2>1. /\ pc[p] = "run" /\ queue' = [queue EXCEPT ![p] = Append(@, DataItem(p))]
          /\ pc' = [pc EXCEPT ![p] =
                        IF Buffered(incoming[p]) THEN "marker" ELSE "ack"]
      BY <1>4, <1>8 DEF RunController
    <2>2. \A id, m : Queued(id, m)' <=>
              Queued(id, m) \/ (cur[p] = id /\ FALSE = m)
      <3>1. /\ DataItem(p) \in Item /\ DataItem(p).id = cur[p]
            /\ DataItem(p).marker = FALSE
        BY <1>1, <2>1, DataItemType DEF DataItem
      <3> QED
        BY <1>1, <1>3, <2>1, <3>1, PushAdds
    <2>3. \A id : /\ HasItem(id)' => HasItem(id) \/ id = cur[p]
                  /\ HasMarker(id) => HasMarker(id)'
      BY <2>2 DEF HasItem, HasMarker
    <2>4. Buffered(input[cur[p]]) => Buffered(incoming[p])
      BY <1>1, <1>4, <2>1, EnrichedType DEF CarriedOf, Buffered
    <2>5. MarkedAt(p)'
      BY <1>1, <1>2, <1>3, <2>1, <2>4 DEF MarkedAt
    <2> QED
      BY <1>2, <1>5, <2>1, <2>3, <2>5
  <1>9. CASE SendMarker(p)
    <2>1. /\ pc[p] = "marker" /\ pc' = [pc EXCEPT ![p] = "ack"]
          /\ queue' = [queue EXCEPT ![p] = Append(@, MarkerItem(p))]
      BY <1>4, <1>9 DEF SendMarker
    <2>2. \A id, m : Queued(id, m)' <=>
              Queued(id, m) \/ (cur[p] = id /\ TRUE = m)
      <3>1. /\ MarkerItem(p) \in Item /\ MarkerItem(p).id = cur[p]
            /\ MarkerItem(p).marker = TRUE
        BY <1>1, <2>1, DataItemType DEF MarkerItem
      <3> QED
        BY <1>1, <1>3, <2>1, <3>1, PushAdds
    <2>3. \A id : /\ HasItem(id)' => HasItem(id)
                  /\ HasMarker(id) => HasMarker(id)'
      BY <2>2 DEF HasItem, HasMarker
    <2>4. HasMarker(cur[p])'
      BY <1>3, <2>2 DEF HasMarker
    <2>5. MarkedAt(p)'
      BY <1>1, <1>3, <2>4 DEF MarkedAt
    <2> QED
      BY <1>2, <1>5, <2>1, <2>3, <2>5
  <1> QED
    BY <1>6, <1>7, <1>8, <1>9 DEF ConsumerStep

(* Only the process that holds a request acknowledges it, and it has the    *)
(* marker queued by then (consumer.go:110).                                 *)
LEMMA MarkAck ==
    ASSUME MarkInv, Undisturbed, NEW p \in Proc, Ack(p)
    PROVE  (\A q \in Proc : MarkedAt(q)') /\ AckedApiRequestIsMarked'
  <1>1. /\ Typed /\ Owned /\ AckedApiRequestIsMarked
        /\ \A q \in Proc : MarkedAt(q)
    BY DEF MarkInv, ReplayInv, FateInv
  <1>2. /\ pc[p] = "ack" /\ pc'[p] = "read"
        /\ pel \ {cur[p]} \subseteq pel'
        /\ \A q \in Proc \ {p} : pc'[q] = pc[q] /\ cur'[q] = cur[q]
        /\ UNCHANGED <<input, mode, reads>>
        /\ UNCHANGED <<queue, wpc, hand, handled, lost>>
    BY <1>1 DEF Ack, Continue, workerVars, Typed, TypeOK, ProcessTypeOK
  <1>3. \A id : (HasItem(id)' <=> HasItem(id)) /\ (HasMarker(id)' <=> HasMarker(id))
    BY <1>2, QueuedUnchanged DEF HasItem, HasMarker
  <1>4. \A q \in Proc : MarkedAt(q)'
    BY <1>1, <1>2, <1>3 DEF MarkedAt
  <1>5. AckedApiRequestIsMarked'
    BY <1>1, <1>2, <1>3 DEF AckedApiRequestIsMarked, MarkedAt, Delivered
  <1> QED
    BY <1>4, <1>5

(* A delivered entry has no result yet and is pending.                      *)
LEMMA MarkGroup ==
    ASSUME MarkInv, Undisturbed, FateInv', NEW p \in Proc,
           ReadGroup(p) \/ EnsureConsumerGroup(p)
    PROVE  (\A q \in Proc : MarkedAt(q)') /\ AckedApiRequestIsMarked'
  <1>1. /\ Typed /\ Owned /\ Known /\ MarkedAt(p)
    BY DEF MarkInv, ReplayInv, FateInv
  <1>2. /\ UNCHANGED <<input, mode>>
        /\ UNCHANGED <<queue, wpc, hand, handled, lost>>
    BY DEF ReadGroup, EnsureConsumerGroup, workerVars
  <1>3. \A id : (HasItem(id)' <=> HasItem(id)) /\ (HasMarker(id)' <=> HasMarker(id))
    BY <1>2, QueuedUnchanged DEF HasItem, HasMarker
  <1>4. /\ pc \in [Proc -> {"down", "setup", "read", "process", "export",
                            "status", "run", "marker", "dead", "ack", "exited"}]
        /\ cur \in [Proc -> Nat] /\ reads \in Seq(Proc \cup {Nobody})
        /\ Len(reads) \in Nat /\ Len(input) \in Nat
    BY <1>1, LenProperties DEF Typed, TypeOK, ProcessTypeOK
  <1>5. CASE ReadGroup(p)
    <2>1. /\ reads' = Append(reads, p) /\ pel' = pel \cup {Len(reads) + 1}
          /\ \/ /\ cur' = [cur EXCEPT ![p] = Len(reads) + 1]
                /\ \E k : pc' = [pc EXCEPT ![p] = k]
             \/ UNCHANGED <<cur, pc>>
          /\ pc[p] = "read"
      BY <1>5 DEF ReadGroup, AddPending
    <2>2. (Delivered \ pel)' \subseteq Delivered \ pel
      <3>1. /\ Len(reads') = Len(reads) + 1
            /\ \A i \in 1..Len(reads) : reads'[i] = reads[i]
        BY <1>4, <2>1, AppendProperties
      <3> QED
        BY <1>4, <2>1, <3>1 DEF Delivered
    <2>3. ~HasItem(Len(reads) + 1)
      BY <1>1, <1>4 DEF Known
    <2>4. MarkedAt(p)'
      BY <1>1, <1>2, <1>3, <1>4, <2>1, <2>3 DEF MarkedAt
    <2>5. \A q \in Proc \ {p} : pc'[q] = pc[q] /\ cur'[q] = cur[q]
      BY <1>4, <2>1
    <2> QED
      BY <1>2, <1>3, <2>2, <2>4, <2>5, MarkQuiet
  <1>6. CASE EnsureConsumerGroup(p)
    <2>1. /\ \E k \in {"read", "exited"} : pc' = [pc EXCEPT ![p] = k]
          /\ UNCHANGED <<cur, pel>>
          /\ CreateGroup \/ reads' = reads
      BY <1>6 DEF EnsureConsumerGroup
    <2>2. (Delivered \ pel)' \subseteq Delivered \ pel
      BY <1>4, <2>1 DEF Delivered, CreateGroup
    <2>3. MarkedAt(p)'
      BY <1>1, <1>2, <1>4, <2>1 DEF MarkedAt
    <2>4. \A q \in Proc \ {p} : pc'[q] = pc[q] /\ cur'[q] = cur[q]
      BY <1>4, <2>1
    <2> QED
      BY <1>2, <1>3, <2>1, <2>2, <2>3, <2>4, MarkQuiet
  <1> QED
    BY <1>5, <1>6

(* Every step keeps the markers.                                            *)
LEMMA MarkNext == MarkInv /\ [Next]_vars => MarkInv'
  <1> SUFFICES ASSUME MarkInv, [Next]_vars
               PROVE  MarkInv'
    OBVIOUS
  <1>0. DeliveryInv' /\ ReplayInv'
    BY DeliveryInvNext, ReplayNext DEF MarkInv
  <1> SUFFICES ASSUME Undisturbed
               PROVE  (\A q \in Proc : MarkedAt(q)') /\ AckedApiRequestIsMarked'
    BY <1>0 DEF MarkInv, Undisturbed
  <1>1. /\ Typed /\ ProcessTyped /\ Owned /\ Pending /\ FateInv'
        /\ \A q \in Proc : MarkedAt(q)
    BY <1>0, TypedProcesses DEF MarkInv, ReplayInv, FateInv
  <1>2. /\ pc \in [Proc -> {"down", "setup", "read", "process", "export",
                            "status", "run", "marker", "dead", "ack", "exited"}]
        /\ mode \in [Proc -> {"down", "up", "stopping"}]
        /\ cur \in [Proc -> Nat] /\ input \in Seq(Request)
        /\ Len(reads) \in Nat /\ Len(input) \in Nat
    BY <1>1, LenProperties DEF Typed, TypeOK, ProcessTypeOK
  <1>3. ASSUME UNCHANGED <<queue, wpc, hand, handled, lost>>
        PROVE  \A id : /\ HasItem(id)' <=> HasItem(id)
                       /\ HasMarker(id)' <=> HasMarker(id)
    BY <1>3, QueuedUnchanged DEF HasItem, HasMarker
  <1>4. ASSUME \A i \in Delivered : input'[i] = input[i],
               UNCHANGED <<mode, pc, cur, reads, pel>>,
               \A id, m : Queued(id, m)' <=> Queued(id, m)
        PROVE  (\A q \in Proc : MarkedAt(q)') /\ AckedApiRequestIsMarked'
    <2>1. \A id : (HasItem(id)' <=> HasItem(id)) /\ (HasMarker(id)' <=> HasMarker(id))
      BY <1>4 DEF HasItem, HasMarker
    <2>2. \A q \in Proc : pc[q] = "ack" => cur[q] \in Delivered
      BY <1>1, RedisAssumption DEF Owned, Busy, Delivered
    <2>3. \A q \in Proc : MarkedAt(q)'
      BY <1>1, <1>4, <2>1, <2>2 DEF MarkedAt
    <2>4. AckedApiRequestIsMarked'
      BY <1>4, <2>1 DEF AckedApiRequestIsMarked, MarkInv, Delivered
    <2> QED
      BY <2>3, <2>4
  <1>5. ASSUME NEW r \in Payloads, Produce(r), UNCHANGED <<groupVars, dead>>
        PROVE  (\A q \in Proc : MarkedAt(q)') /\ AckedApiRequestIsMarked'
    <2>1. r \in Request
      BY ProcessAssumption
    <2>2. \A i \in 1..Len(input) : input'[i] = input[i]
      BY <1>2, <1>5, <2>1, AppendProperties DEF Produce
    <2>3. \A i \in Delivered : input'[i] = input[i]
      BY <1>1, <1>2, <2>2 DEF Owned, Delivered
    <2>4. \A id, m : Queued(id, m)' <=> Queued(id, m)
      BY <1>5, QueuedUnchanged DEF Produce, workerVars
    <2> QED
      BY <1>4, <1>5, <2>3, <2>4 DEF Produce, consumerVars, groupVars
  <1>6. ASSUME NEW rk \in RoutingKey, Expire(rk), UNCHANGED <<groupVars, dead>>
        PROVE  (\A q \in Proc : MarkedAt(q)') /\ AckedApiRequestIsMarked'
    BY <1>4, <1>6, QueuedUnchanged
    DEF Expire, processVars, consumerVars, workerVars, groupVars
  <1>7. ASSUME NEW p \in Proc, NEW k \in {"setup", "exited", "down", "ack"},
               NEW s \in {"up", "down"},
               pc' = [pc EXCEPT ![p] = k], mode' = [mode EXCEPT ![p] = s],
               k = "ack" => ~HasItem(cur[p]) /\ cur' = cur,
               \A q \in Proc \ {p} : cur'[q] = cur[q],
               UNCHANGED <<input, reads, pel>>,
               \A id, m : Queued(id, m)' <=> Queued(id, m)
        PROVE  (\A q \in Proc : MarkedAt(q)') /\ AckedApiRequestIsMarked'
    <2>1. \A id : (HasItem(id)' <=> HasItem(id)) /\ (HasMarker(id)' <=> HasMarker(id))
      BY <1>7 DEF HasItem, HasMarker
    <2>2. pc'[p] = k /\ mode'[p] = s
      BY <1>2, <1>7
    <2>3. MarkedAt(p)'
      BY <1>7, <2>1, <2>2 DEF MarkedAt
    <2>4. \A q \in Proc \ {p} : /\ pc'[q] = pc[q] /\ cur'[q] = cur[q]
                                /\ mode'[q] = mode[q]
      BY <1>2, <1>7
    <2>5. UNCHANGED <<Delivered, pel>>
      BY <1>7 DEF Delivered
    <2> QED
      BY <1>7, <2>1, <2>3, <2>4, <2>5, MarkQuiet
  <1>8. ASSUME NEW p \in Proc, Start(p)
        PROVE  (\A q \in Proc : MarkedAt(q)') /\ AckedApiRequestIsMarked'
    BY <1>7, <1>8, QueuedUnchanged DEF Start, Begin, workerVars, groupVars
  <1>9. ASSUME NEW p \in Proc, AddDeadLetter(p)
        PROVE  (\A q \in Proc : MarkedAt(q)') /\ AckedApiRequestIsMarked'
    <2>1. /\ pc[p] = "dead" /\ pc' = [pc EXCEPT ![p] = "ack"]
          /\ UNCHANGED <<input, mode, cur, reads, pel>>
          /\ UNCHANGED <<queue, wpc, hand, handled, lost>>
      BY <1>9 DEF AddDeadLetter, groupVars, workerVars
    <2>2. ~HasItem(cur[p])
      BY <1>1, <2>1 DEF Pending, PendingOf
    <2>3. mode[p] # "stopping" /\ mode' = [mode EXCEPT ![p] = mode[p]]
      BY <1>1, <1>2, <2>1 DEF MarkedAt
    <2> QED
      BY <1>2, <1>7, <2>1, <2>2, <2>3, QueuedUnchanged
  <1>10. ASSUME NEW p \in Proc, Shared(p)
         PROVE  (\A q \in Proc : MarkedAt(q)') /\ AckedApiRequestIsMarked'
    <2>1. UNCHANGED <<groupVars, dead>> /\ UNCHANGED <<reads, pel>>
      BY <1>10 DEF Shared, groupVars
    <2>2. CASE ConsumerStep(p)
      BY <2>1, <2>2, MarkConsumer
    <2>3. CASE WorkerStep(p) \/ WorkerReturn(p)
      BY <1>1, <1>4, <2>1, <2>3, WorkerMoves, WorkerKeeps
    <2>4. ~ConsumerReturn(p) /\ ~Signal(p)
      BY <1>1 DEF ConsumerReturn, Signal, MarkedAt, Undisturbed
    <2>5. CASE End(p)
      <3>1. \A id, m : Queued(id, m)' <=> Queued(id, m)
        BY <1>1, <2>5, EndKeeps
      <3>2. /\ pc' = [pc EXCEPT ![p] = "down"] /\ mode' = [mode EXCEPT ![p] = "down"]
            /\ cur' = [cur EXCEPT ![p] = 0] /\ input' = input
        BY <2>5 DEF End
      <3> QED
        BY <1>2, <1>7, <2>1, <3>1, <3>2
    <2> QED
      BY <1>10, <2>2, <2>3, <2>4, <2>5 DEF Shared
  <1>11. CASE UNCHANGED vars
    BY <1>4, <1>11, QueuedUnchanged
    DEF vars, processVars, consumerVars, workerVars, groupVars
  <1> QED
    BY <1>1, <1>5, <1>6, <1>8, <1>9, <1>10, <1>11, MarkAck, MarkGroup
    DEF Next, ReadNothing

(* Without a signal and a timeout no acknowledged API request lacks the     *)
(* marker of its result, whatever calls, keys and processes fail            *)
(* (consumer.go:196-203).                                                   *)
THEOREM UndisturbedIsMarkedHolds == Spec => []UndisturbedIsMarked
  <1>1. MarkInv => UndisturbedIsMarked
    BY DEF MarkInv, UndisturbedIsMarked, Undisturbed
  <1> QED
    BY <1>1, MarkInit, MarkNext, PTL DEF Spec
=============================================================================
