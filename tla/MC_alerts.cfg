SPECIFICATION Spec
CONSTANTS
    Text <- MCText
    EventNames <- MCEventNames
    PageNames  <- MCPageNames
    Products   <- MCProducts
    Alerts     <- MCAlerts
INVARIANT AlertReachesStrategy
CHECK_DEADLOCK FALSE
