SPECIFICATION Spec
CONSTANTS
    Nominal = {"cat"}
    Numeric = {"num"}
    Labels = {1, 2}
    Batches <- LearningBatches
    MinInstances = 2
    WeakAccuracy = 80
    WeakTotal = 3
    LimitUse = FALSE
    Lower = 0
    Upper = 1
    Faults = FALSE
    ReopenAfterFailure = TRUE
    MaxChunks = 3
INVARIANTS
    ConfusionExact
