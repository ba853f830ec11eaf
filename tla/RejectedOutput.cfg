\* Broken files before a good one: what is printed for them.
SPECIFICATION Spec
CONSTANTS
    Batches <- AllBatches
    Openings <- MCOpenings
    stoi <- Numerals
INVARIANT OutputIsTheTree
