SPECIFICATION Spec
CONSTANTS
    Names <- MCNames
    Word <- MCWord
    Programs <- CallAsOperand
INVARIANTS
    ResultInPlace
