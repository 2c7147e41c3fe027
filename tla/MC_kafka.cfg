SPECIFICATION Spec
CONSTANTS
    Text <- MCText
    p1 = p1
    p2 = p2
    Proc = {p1, p2}
    Nobody = Nobody
    Payloads <- KafkaPayloads
    MaxEntries = 2
    MaxGenerations = 3
    Elapsed = {0}
    SenderQueueCap = 1
    OverrideRoutingKey = ""
    LiveServiceURL = TRUE
    Faults = {"crash", "call", "rebalance"}
    EventTimeout = 1
    messageDispatcherTimeoutSec = 2
    CalcExportProducer = TRUE
    RoutingKey = {"", "r1"}
    TotalMessages <- Total2
SYMMETRY Symmetry
INVARIANTS CommittedIsAccounted DuplicatesNeedReassignment
