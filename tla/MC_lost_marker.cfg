SPECIFICATION Spec
CONSTANTS
    Text <- MCText
    p1 = p1
    p2 = p2
    Proc = {p1}
    Nobody = Nobody
    Payloads <- ApiPayloads
    MaxEntries = 1
    Elapsed = {0}
    SenderQueueCap = 2
    OverrideRoutingKey = ""
    LiveServiceURL = TRUE
    Faults = {"timeout"}
    EventTimeout = 1
    messageDispatcherTimeoutSec = 2
    CalcExportProducer = FALSE
    RoutingKey = {"", "r1"}
    TotalMessages <- Total2

INVARIANT AckedApiRequestIsMarked
