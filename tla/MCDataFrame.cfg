SPECIFICATION Spec
SYMMETRY Symmetry
CONSTRAINT FewLines
CONSTANTS
    Headers <- MCHeaders
    Lines <- MCLines
    UseCols <- MCUseCols
    Tables <- MCTables
    Features <- MCFeatures
    ColPicks <- MCColPicks
    RowPicks <- MCRowPicks
    Words = {"a", "b"}
    Extra = {"y", "z"}
    MaxLines = 4
    Frames = {f1, f2, f3, f4}
    Blocks = {b1, b2, b3}
    NoBlock = nil
    Growth = 2
    MaxRows = 3
    MaxFrames = 3
INVARIANTS
    TypeOK
    RowsFitHeader
    RowsInOrder
    BlocksAreShared
    ViewsInBounds
PROPERTIES
    CountedIsRead
    OneViewChanges
    SplitPartitions
