SPECIFICATION Spec
CONSTANTS
    Nominal = {"cat"}
    Numeric = {"num"}
    Labels = {1, 2}
    Batches <- FlatBatches
    MinInstances = 2
    WeakAccuracy = 80
    WeakTotal = 3
    LimitUse = TRUE
    Lower = 5
    Upper = 8
    Faults = FALSE
    ReopenAfterFailure = TRUE
    MaxChunks = 3
INVARIANTS
    LimitAccepts
