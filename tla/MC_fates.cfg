SPECIFICATION Spec
CONSTANTS
    Text <- MCText
    p1 = p1
    p2 = p2
    Proc = {p1, p2}
    Nobody = Nobody
    Payloads <- FatePayloads
    MaxEntries = 2
    Elapsed = {0}
    SenderQueueCap = 1
    OverrideRoutingKey = ""
    LiveServiceURL = TRUE
    Faults = {"crash", "signal", "call", "timeout"}
    EventTimeout = 1
    messageDispatcherTimeoutSec = 2
    CalcExportProducer = FALSE
    RoutingKey = {"", "r1"}
    TotalMessages <- Total2
SYMMETRY Symmetry
INVARIANTS TypeOK AckedIsAccounted OneFate FifoOncePerProcess NoSharedDispatch CompletionAfterData
PROPERTY ImplementsDelivery
