SPECIFICATION Spec
CONSTANTS
    Text <- MCText
    p1 = p1
    p2 = p2
    Proc = {p1}
    Nobody = Nobody
    Payloads <- ApiPayloads
    MaxEntries = 1
    MaxGenerations = 2
    Elapsed = {0}
    SenderQueueCap = 1
    OverrideRoutingKey = ""
    LiveServiceURL = TRUE
    Faults = {"rebalance"}
    EventTimeout = 1
    messageDispatcherTimeoutSec = 2
    CalcExportProducer = TRUE
    RoutingKey = {"", "r1"}
    TotalMessages <- Total2
INVARIANT BufferedIsComplete
