SPECIFICATION FairSpec
CONSTANTS
    Nominal = {"cat"}
    Numeric = {"num"}
    Labels = {1, 2}
    Batches <- LimitBatches
    MinInstances = 2
    WeakAccuracy = 80
    WeakTotal = 3
    LimitUse = TRUE
    Lower = 4
    Upper = 8
    Faults = TRUE
    ReopenAfterFailure = TRUE
    MaxChunks = 4
INVARIANTS
    VerdictsCurrent
    LeafCountsMatch
    GlobalsMatch
    ConfusionCovers
PROPERTIES
    ImplementsLedger
