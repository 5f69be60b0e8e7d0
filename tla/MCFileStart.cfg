CONSTANTS
    n1 = n1
    p1 = p1
    Names = {n1}
    Entries = {e1, e2}
    Files = {f1, f2}
    Threads = {t1, t2}
    Readers = {}
    ProducerIds = {p1}
    Requests <- AllRequests
    Creates <- AllCreates
    PRODUCER_STATE_TTL_SECS = 2
    max_total_bytes = 3
    max_stream_bytes = 4
    MaxTime = 1
    MaxRestarts = 1
    MaxFaults = 0
    MaxWrites = 3
    MaxCallsAfterRestart = 1
SYMMETRY ThreadSymmetry
SPECIFICATION Spec
PROPERTIES RestartSucceeds
CHECK_DEADLOCK FALSE
