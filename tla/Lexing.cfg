\* All short texts, and files with errors before others.
SPECIFICATION FairSpec
CONSTANTS
    Letters <- MCLetters
    Digits <- MCDigits
    Directories <- LexedDirectories
    Openings <- MCOpenings
INVARIANTS
    PositionsExceptStray
    CommentsDelimited
    NothingDropped
    MixedWordsRejected
    LexInv
PROPERTY AllTestcasesTokenised
