SPECIFICATION Spec
CONSTANTS
    Letters <- MCLetters
    Symbols <- MCSymbols
    CommentEnds <- MCCommentEnds
    Quote = "'"
    Newline = "nl"
    Meow <- MCMeow
    Dictionary <- MCDictionary
    MAX_TOKEN_LEN = 3
    TABLE_INIT_SZ = 2
    Junk <- MCJunk
    Texts <- MCTexts
    MaxLen = 5
    MaxPieces = 4
INVARIANTS TypeOK TokensRight QuotesEnd
PROPERTY Terminates
CHECK_DEADLOCK FALSE
