SPECIFICATION Spec
CONSTANT CodeSizes <- Sizes
INVARIANTS TypeOK InBuffer CodeIntact HeadersAgree PltReachesGot CodeExecutable
CHECK_DEADLOCK FALSE
