SPECIFICATION Spec
CONSTANTS
    Requests <- MCRequests
    Batches <- MCBatches
    Serial = TRUE
INVARIANTS ReuseIsClean ReadsWhatWasWritten StatementMeansItself EveryFaultIsReported ListsReadAlike
