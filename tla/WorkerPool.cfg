SPECIFICATION FairSpec
CONSTANTS
    Worker = {w1, w2, w3}
    Task = {t1, t2, t3, t4}
    None = None
INVARIANTS
    TypeOK
    NothingRunsAfterWait
    TasksAreLostOnlyToStop
PROPERTIES
    CallerReturns
