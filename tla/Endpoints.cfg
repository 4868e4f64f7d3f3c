SPECIFICATION Spec
CONSTANT
    Api <- Table
INVARIANTS
    TypeOK
    AnsweredAsDocumented
    RefusedForAReason
    FailureTold
CHECK_DEADLOCK FALSE
