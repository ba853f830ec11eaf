\* Where comments with stars before their end do end.
SPECIFICATION Spec
CONSTANTS
    Letters <- MCLetters
    Digits <- MCDigits
    Directories <- StarredComments
    Openings <- Opened
INVARIANT CommentEndsAtFirstClose
