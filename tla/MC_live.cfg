SPECIFICATION FairSpec
CONSTANTS
    Text <- MCText
    p1 = p1
    p2 = p2
    Proc = {p1, p2}
    Nobody = Nobody
    Payloads <- LivePayloads
    MaxEntries = 2
    Elapsed = {0}
    SenderQueueCap = 1
    OverrideRoutingKey = ""
    LiveServiceURL = TRUE
    Faults = {"timeout", "setup"}
    EventTimeout = 1
    messageDispatcherTimeoutSec = 2
    CalcExportProducer = FALSE
    RoutingKey = {"", "r1"}
    TotalMessages <- Total2
PROPERTIES EntriesAreProcessed DeliveredIsAcked BatchIsAnnounced
CHECK_DEADLOCK FALSE
