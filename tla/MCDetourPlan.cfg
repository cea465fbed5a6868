SPECIFICATION Spec
CONSTANTS
    Requests <- SomeRequests
    Paths <- FewPaths
    Variants <- SomeVariants
    Places <- ReturningRoute
INVARIANTS
    VariantHonoursCut
    SelectionsCanBeSewn
    BestWithoutTurns
    OriginalErrorReturned
    FaresFollowOriginal
PROPERTIES
    AttemptsAdvance
