SPECIFICATION Spec
CONSTANTS
    Objects = {o1, o2}
    Writers = {o1, o2}
    Nobody = nobody
    Texts = {"a", "b", "c"}
    MaxRows = 3
INVARIANTS
    RowsKeepTheirText
