SPECIFICATION FairSpec
CONSTANTS
    s1 = s1
    s2 = s2
    prog = prog
    progStem = progStem
    elsewhere = elsewhere
    Sources = {s1, s2}
    Bases = {prog}
    Stems = {progStem}
    Others = {elsewhere}
    None = None
    MaxVer = 2
    BaseOf <- MCBaseOf
    StemOf <- MCStemOf
    KindOf <- MCKindOf
INVARIANTS TypeOK InOrder SuccessIsCurrent
PROPERTIES Monotone DeliversOrFails
