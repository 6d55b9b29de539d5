SPECIFICATION Spec
SYMMETRY Symmetry
CONSTANTS
    Keys = {k1, k2, k3, k4, k5, k6}
    Values = {v1, v2}
    Capacity = 4
    SurviveSize = 3
    MaxCount = 4
INVARIANTS
    TypeOK
    AnswersAreCurrent
PROPERTY
    EvictionByRank
