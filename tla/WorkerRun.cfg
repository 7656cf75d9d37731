SPECIFICATION FairSpec
CONSTANT
    N = 3
INVARIANTS
    AnsweredOnce
PROPERTIES
    ImplementsContract
    CallEnds
CHECK_DEADLOCK FALSE
