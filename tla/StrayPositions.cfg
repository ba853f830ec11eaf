\* The columns of tokens behind a character no rule knows.
SPECIFICATION Spec
CONSTANTS
    Letters <- MCLetters
    Digits <- MCDigits
    Directories <- AroundStray
    Openings <- Opened
INVARIANT PositionsMatchText
