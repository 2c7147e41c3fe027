--------------------------- MODULE RoutingProofs ----------------------------
(***************************************************************************)
(* The properties of Routing for every page, product and alert name a      *)
(* sender may supply, of which the run tries a few.                        *)
(***************************************************************************)
EXTENDS Routing, EventsProofs

(* The inductive invariant: past its first stage a request is the           *)
(* enrichment of what was sent, and its message comes from that.            *)
Derived ==
    /\ given \in EventData
    /\ stage \in {"received", "enriched", "routed"}
    /\ stage = "received" => eventData = given
    /\ stage # "received" => eventData = EventToPageEnrichment(eventName, given)
    /\ stage = "routed" => message = OutgoingMessage(eventData)

(* Derived holds in every reachable state: Enrich and Run are the only steps. *)
LEMMA DerivedInvariant == Spec => []Derived
  <1>1. Init => Derived
    BY DEF Init, Derived
  <1>2. Derived /\ [Next]_vars => Derived'
    <2> SUFFICES ASSUME Derived, [Next]_vars
                 PROVE  Derived'
      OBVIOUS
    <2>1. CASE Enrich
      BY <2>1 DEF Enrich, Derived
    <2>2. CASE Run
      BY <2>2 DEF Run, Derived
    <2>3. CASE UNCHANGED vars
      BY <2>3 DEF vars, Derived
    <2> QED
      BY <2>1, <2>2, <2>3 DEF Next
  <1> QED
    BY <1>1, <1>2, PTL DEF Spec

(* Enrichment is idempotent on every request (events.go,                    *)
(* EventToPageEnrichment): replaying an enriched payload routes it alike.   *)
THEOREM EnrichmentIdempotentHolds == Spec => []EnrichmentIdempotent
  <1>1. Derived => EnrichmentIdempotent
    <2> SUFFICES ASSUME Derived, stage # "received"
                 PROVE  EventToPageEnrichment(eventName, eventData) = eventData
      BY DEF EnrichmentIdempotent
    <2>1. eventData = EventToPageEnrichment(eventName, given)
      BY DEF Derived
    <2>2. given \in EventData
      BY DEF Derived
    <2>3. EnrichedPage(eventName, EnrichedPage(eventName, given.PageName))
              = EnrichedPage(eventName, given.PageName)
      BY EnrichedPageStable
    <2>4. eventData.PageName = EnrichedPage(eventName, given.PageName)
      BY <2>1, <2>2 DEF EventToPageEnrichment, EventData
    <2> QED
      BY <2>1, <2>2, <2>3, <2>4 DEF EventToPageEnrichment, EventData
  <1> QED
    BY <1>1, DerivedInvariant, PTL

(* An event whose page the enrichment decides reaches a strategy whatever   *)
(* product and alert its sender supplies, unless its alert overrides the    *)
(* page (controller.go, Controller.Run and Registry.Get).                   *)
THEOREM EnrichedPageReachesStrategyHolds ==
    Spec => []EnrichedPageReachesStrategy
  <1>1. Derived => EnrichedPageReachesStrategy
    <2> SUFFICES ASSUME Derived, stage = "routed", ~RoutedByAlert(eventData),
                        \/ eventName \in DOMAIN FixedPage
                        \/ /\ eventName = "unified_json"
                           /\ given.PageName \in DOMAIN UnifiedJSONPageMapping
                 PROVE  message # Placeholder
      BY DEF EnrichedPageReachesStrategy
    <2>1. /\ given \in EventData
          /\ eventData = EventToPageEnrichment(eventName, given)
          /\ message = OutgoingMessage(eventData)
      BY DEF Derived
    <2>2. eventData.PageName = EnrichedPage(eventName, given.PageName)
      BY <2>1 DEF EventToPageEnrichment, EventData
    <2>3. eventData.PageName \in StubPages
      <3>1. CASE eventName \in DOMAIN FixedPage
        BY <3>1, <2>2, FixedPageRegistered DEF EnrichedPage
      <3>2. CASE eventName \notin DOMAIN FixedPage
        BY <3>2, <2>2, UnifiedValues DEF EnrichedPage, Mapped
      <3> QED
        BY <3>1, <3>2
    <2>4. eventData.PageName # ""
      BY <2>3 DEF StubPages
    <2>5. LookupPage(eventData) = eventData.PageName
      BY <2>4 DEF LookupPage, RoutedByAlert
    <2>6. HasStrategy(eventData)
      BY <2>3, <2>5, StubPageFound DEF HasStrategy
    <2> QED
      BY <2>1, <2>6, StubIsNoPlaceholder DEF OutgoingMessage
  <1> QED
    BY <1>1, DerivedInvariant, PTL
=============================================================================
