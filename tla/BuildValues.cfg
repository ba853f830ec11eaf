\* Variables, array elements, calls and operators in every position, and
\* names declared by the module, parameters and function bodies.
SPECIFICATION FairSpec
CONSTANT Programs <- ValuePrograms
INVARIANTS
    OperandsWellTyped
    TypesInv
    DefinitionsDominateUses
    DominanceInv
    ElementsGuarded
    ScopesFollowTheWalk
    StaticScoping
    NamesInv
    ElementInv
    DeclarationInv
    LanguageRules
PROPERTY RunsToTheEnd
