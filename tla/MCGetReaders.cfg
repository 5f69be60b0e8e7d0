CONSTANTS
    Names = {n1}
    Entries = {e1, e2}
    Readers = {r1}
    Modes = {"catch-up", "long-poll", "sse"}
    Batches <- SmallBatches
    NOTIFY_CHANNEL_CAPACITY = 1
    SseIdleClose = TRUE
    MaxMessages = 2
SPECIFICATION Spec
INVARIANTS TypeOK InOrderOnce DeliveredCompletely ClosedMeansEnd
PROPERTIES SseDelivers
CHECK_DEADLOCK FALSE
