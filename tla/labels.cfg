SPECIFICATION Spec
CONSTANTS
    f = f
    g = g
    FuncIds <- Names
    InstrSizes <- Sizes
    InitRoom = 2
    MaxSize = 46
    MaxLabels = 6
    MaxDepth = 3
INVARIANTS TypeOK LabelsReserved JumpsLand CallsLand FunctionsClosed
PROPERTY CodeFixed
SYMMETRY Rename
CHECK_DEADLOCK FALSE
