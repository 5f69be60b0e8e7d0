CONSTANTS
    Names = {n1}
    Entries = {e1, e2}
    Writers = {w1, w2}
    Batches <- SmallBatches
    MaxMessages = 2
SYMMETRY WriterSymmetry
SPECIFICATION Spec
INVARIANTS CloseOnlyAtOffset
CHECK_DEADLOCK FALSE
