SPECIFICATION FairSpec
CONSTANTS
    Goroutine = {g1, g2}
    Name = {n1, n2}
    Entry = {e1, e2, e3, e4}
    Size = 1
    None = None
INVARIANTS
    TypeOK
    HeldStaysStored
    ExclusiveByName
    QueueMatchesMap
PROPERTIES
    ImplementsContract
    OperationsReturn
