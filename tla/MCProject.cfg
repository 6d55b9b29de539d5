SPECIFICATION Spec
CONSTANTS
    Procs = {"new", "old"}
    NoProc = nobody
    Fields = {"f"}
    Settings = {"true"}
    Types = {"sqlite"}
    Versions = {"1.0", "0.9.1"}
    Numbers <- MCNumbers
    Version <- MCVersion
    MaxX = 1
    MaxDisorder = 3
INVARIANTS
    TypeOK
    NothingTorn
    SettingsSurvive
    VersionStays
CHECK_DEADLOCK FALSE
