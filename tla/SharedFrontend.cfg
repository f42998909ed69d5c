SPECIFICATION Spec
CONSTANTS
    Requests <- MCRequests
    Batches <- SharedBatches
    Serial = FALSE
INVARIANTS ReuseIsClean
