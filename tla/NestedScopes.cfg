\* Declarations in nested blocks.
SPECIFICATION Spec
CONSTANT Programs <- NestedPrograms
INVARIANT DeclarationsEndWithTheirBlock
