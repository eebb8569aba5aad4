SPECIFICATION Spec
CONSTANTS
    Programs <- MCPrograms
    Input <- MCInput
    Base <- MCBase
    Junk <- MCJunk
INVARIANTS
    TypeOK ReturnsToCaller
PROPERTY
    KeepsPromise Terminates
