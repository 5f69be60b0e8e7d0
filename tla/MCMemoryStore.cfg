CONSTANTS
    n1 = n1
    n2 = n2
    p1 = p1
    ct = ct
    Names = {n1, n2}
    Entries = {e1, e2}
    Threads = {t1, t2}
    ProducerIds = {p1}
    ContentTypes = {ct}
    Requests <- HandlerRequests
    Creates <- HandlerCreates
    PRODUCER_STATE_TTL_SECS = 2
    max_total_bytes = 4
    max_stream_bytes = 3
    MaxTime = 1
SYMMETRY ThreadSymmetry
SPECIFICATION Spec
INVARIANTS TypeOK ResumeExact Accounting LimitsHold
PROPERTIES ClosedIsFinal ImplementsStore
CHECK_DEADLOCK FALSE
