SPECIFICATION Spec
CONSTANTS
    Programs <- ArgPrograms
    Input <- MCInput
    Base <- MCBase
    Junk <- MCJunk
PROPERTY
    KeepsPromise
