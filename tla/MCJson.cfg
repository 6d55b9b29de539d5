SPECIFICATION Spec
CONSTANTS
    Paths <- MCPaths
    Names = {"a", "b"}
    Numbers = {"null", "false", "0", "0.0000001"}
    Tiny = {"0.0000001"}
    Zero = "0"
    Values = {"0.0000001", "false", "[]"}
    Inputs = {"{", "}", "[", "]", ",", ":", "a", "b"}
    MaxTokens = 11
    MaxLeaves = 3
INVARIANTS
    TypeOK
    IsTree
    RoundTrip
    AcceptsDocuments
    SaxDelivers
    
PROPERTY
    SetIsLocal
