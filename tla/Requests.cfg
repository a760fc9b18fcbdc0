SPECIFICATION Spec

CONSTANTS
    t1 = t1
    t2 = t2
    None = None
    Raised = Raised
    Threads <- MCThreads
    Sessions <- MCSessions
    Lists <- MCLists

INVARIANTS
    TypeOK
    SentAsDocumented
    ExecutedAtOneInstant
    RoutedAsAsked
    ConfiguredAsAsked

SYMMETRY ThreadSymmetry

CHECK_DEADLOCK FALSE
