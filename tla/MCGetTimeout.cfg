CONSTANTS
    Names = {n1}
    Entries = {e1, e2}
    Readers = {r1}
    Modes = {"long-poll"}
    Batches <- SmallBatches
    NOTIFY_CHANNEL_CAPACITY = 1
    SseIdleClose = TRUE
    MaxMessages = 2
SYMMETRY EntrySymmetry
SPECIFICATION Spec
INVARIANTS LongPollComplete
CHECK_DEADLOCK FALSE
