------------------------------ MODULE Routing -------------------------------
(***************************************************************************)
(* The path of one accepted request from its event name to the message a   *)
(* strategy produces: enrichment, then the controller's lookup.            *)
(***************************************************************************)
EXTENDS Controller

CONSTANTS EventNames,   \* event names tried, accepted ones
          PageNames,    \* page_name values a sender supplies
          Products,     \* product values a sender supplies
          Alerts        \* page_alert_notification values a sender supplies

ASSUME RoutingAssumption ==
    /\ EventNames \subseteq AcceptedEventNames
    /\ PageNames \subseteq Text
    /\ Products \subseteq Text
    /\ Alerts \subseteq Text

VARIABLES stage,      \* "received", "enriched" or "routed"
          eventName,
          given,      \* eventData as it was sent
          eventData,  \* eventData as the code mutates it
          message     \* what Controller.Run pushes

vars == <<stage, eventName, given, eventData, message>>

EventData == [PageName : PageNames, Product : Products, DataSourceName : {""},
              PageAlertNotification : Alerts, StreamTech : {"API"}]

Init ==
    /\ stage = "received"
    /\ eventName \in EventNames
    /\ given \in EventData
    /\ eventData = given
    /\ message = Placeholder

Enrich ==
    /\ stage = "received"
    /\ stage' = "enriched"
    /\ eventData' = EventToPageEnrichment(eventName, eventData)
    /\ UNCHANGED <<eventName, given, message>>

Run ==
    /\ stage = "enriched"
    /\ stage' = "routed"
    /\ message' = OutgoingMessage(eventData)
    /\ UNCHANGED <<eventName, given, eventData>>

Next == Enrich \/ Run

Spec == Init /\ [][Next]_vars

-----------------------------------------------------------------------------
\* The alert override of the lookup: the page is then taken from the alert.
RoutedByAlert(params) ==
    params.Product = "Alerts" /\ params.PageAlertNotification # ""

(* Enriching a request that was already enriched changes nothing: a request *)
(* replayed from the dead-letter stream, whose payload is the enriched      *)
(* event, is routed like the first time (events.go, EventToPageEnrichment). *)
EnrichmentIdempotent ==
    stage # "received" =>
        EventToPageEnrichment(eventName, eventData) = eventData

(* An event whose page the enrichment decides (it is fixed by the event, or *)
(* taken from the unified_json table) is answered by a strategy for every   *)
(* product and alert its sender supplies, unless it is routed by its alert: *)
(* Registry.Get falls back on the page name alone.                          *)
EnrichedPageReachesStrategy ==
    ( /\ stage = "routed"
      /\ ~RoutedByAlert(eventData)
      /\ \/ eventName \in DOMAIN FixedPage
         \/ /\ eventName = "unified_json"
            /\ given.PageName \in DOMAIN UnifiedJSONPageMapping )
        => message # Placeholder

(* A request of product Alerts is answered by the strategy registered for   *)
(* its page_alert_notification (stub.go:72, controller.go:81).              *)
AlertReachesStrategy ==
    (stage = "routed" /\ eventData.Product = "Alerts"
        /\ eventData.PageAlertNotification \in AlertNotifications)
        => message # Placeholder
=============================================================================
