SPECIFICATION Spec
CONSTANTS
    Names <- MCNames
    Word <- MCWord
    Programs <- LoopThenStatement
INVARIANTS
    CompilesThrough
