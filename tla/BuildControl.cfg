\* Every nesting of blocks, if, if-else, while and return of depth two.
SPECIFICATION Spec
CONSTANT Programs <- ControlPrograms
INVARIANTS
    TypeOK
    InsertPointAtBack
    WellFormedBlocks
    OnePlaceForEachBlock
    BranchTargetsInserted
    BuilderInv
    PlacementInv
PROPERTIES
    AppendOnly
    WrittenFrontToBack
