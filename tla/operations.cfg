SPECIFICATION Spec
CONSTANTS
    Registers <- MCRegisters
    Numbers <- MCNumbers
    Places <- MCPlaces
    FlagNames <- MCFlagNames
    MaxLines = 2
INVARIANT ListingIsProgram
CHECK_DEADLOCK FALSE
