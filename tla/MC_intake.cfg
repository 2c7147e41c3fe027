SPECIFICATION Spec
CONSTANTS
    Text <- MCText
    p1 = p1
    p2 = p2
    Proc = {p1}
    Nobody = Nobody
    Payloads <- MixedPayloads
    MaxEntries = 2
    Elapsed = {0, 2, 3}
    SenderQueueCap = 1
    OverrideRoutingKey = ""
    LiveServiceURL = TRUE
    Faults = {"signal", "call", "timeout", "setup"}
    EventTimeout = 1
    messageDispatcherTimeoutSec = 2
    CalcExportProducer = FALSE
    RoutingKey = {"", "r1"}
    TotalMessages <- Total2

INVARIANTS AckedIsAccounted DeadLetterReplays
