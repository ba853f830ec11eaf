\* All commands of up to three words, one after the other.
SPECIFICATION Spec
CONSTANTS
    Sources <- MCSources
    LexicalErrors = {"lexical"}
    SyntaxErrors = {"syntax"}
    Unbound = {"unbound"}
    Broken = {"broken"}
    Commands <- MCCommands
    SourcePaths <- MCPaths
    MaxRuns = 2
INVARIANTS
    SuccessMeansCurrent
    FailureLeavesFiles
PROPERTY OnlyTargetsWritten
CHECK_DEADLOCK FALSE
