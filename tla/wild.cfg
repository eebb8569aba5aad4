SPECIFICATION FairSpec
CONSTANTS
    Names <- MCNames
    Word <- MCWord
    Programs <- WildPrograms
INVARIANTS
    TypeOK FramesBalanced StackBalanced
PROPERTY
    Terminates
