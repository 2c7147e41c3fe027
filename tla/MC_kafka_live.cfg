SPECIFICATION FairSpec
CONSTANTS
    Text <- MCText
    p1 = p1
    p2 = p2
    Proc = {p1, p2}
    Nobody = Nobody
    Payloads <- LivePayloads
    MaxEntries = 2
    MaxGenerations = 2
    Elapsed = {0}
    SenderQueueCap = 1
    OverrideRoutingKey = ""
    LiveServiceURL = TRUE
    Faults = {"crash", "signal", "timeout", "ttl"}
    EventTimeout = 1
    messageDispatcherTimeoutSec = 2
    CalcExportProducer = TRUE
    RoutingKey = {"", "r1"}
    TotalMessages <- Total2
INVARIANTS TypeOK CommittedIsAccounted CompletionAfterData EarlyOnlyByReassignment
PROPERTY EventuallyCommitted
