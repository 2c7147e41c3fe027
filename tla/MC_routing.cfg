SPECIFICATION Spec
CONSTANTS
    Text <- MCText
    EventNames <- MCEventNames
    PageNames  <- MCPageNames
    Products   <- MCProducts
    Alerts     <- MCAlerts
INVARIANTS EnrichmentIdempotent EnrichedPageReachesStrategy
CHECK_DEADLOCK FALSE
