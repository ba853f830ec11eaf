\* Programs of every form, and broken files before a good one.
SPECIFICATION FairSpec
CONSTANTS
    Batches <- AllBatches
    Openings <- MCOpenings
    stoi <- Numerals
INVARIANTS
    TreeTypeOK
    MemoryInv
    OneOwner
    NothingLeaks
    NothingLost
    ProgramsAccepted
    TransformKeepsProgram
    PrintedTreeTellsProgram
PROPERTY BatchEnds
