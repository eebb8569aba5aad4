SPECIFICATION Spec
CONSTANTS
    Names <- MCNames
    Word <- MCWord
    Programs <- ValuePrograms
INVARIANTS
    UsesOneRegister ResultInPlace OffsetsAgree LocalsReserved CompilesThrough
