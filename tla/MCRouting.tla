----------------------------- MODULE MCRouting ------------------------------
(* Routing with every accepted event, every page name the enrichment tables *)
(* know, and products and alerts that hit and miss the registry.            *)
EXTENDS Routing

MCEventNames == AcceptedEventNames
MCPageNames  == {"", "AccountPage", "UnregisteredPage"}
                \cup DOMAIN EngagementsPageNameMapping
                \cup DOMAIN UnifiedJSONPageMapping
MCProducts   == {"", "Dashboards", "Alerts", "PUBLIC_API"}
MCAlerts     == {"", "TrendingAlert", "UnregisteredAlert"}
MCText == STRING
=============================================================================
