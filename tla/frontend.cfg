CONSTANTS
    Texts <- AllTexts
    INIT_LIST_SZ = 4
    EXPAND_COEF = 2
    MaxPrinted = 11
SPECIFICATION Spec
CHECK_DEADLOCK FALSE
INVARIANTS
    TypeOK
    EachTokenOnce
    SentencesParse
    TreeArrives
    PrintedReadsBack
