SPECIFICATION Spec
CONSTANTS
    Goroutine = {g1, g2}
    Name = {n1, n2}
    None = None
    RepeatedLayers = FALSE
SYMMETRY Symmetry
INVARIANTS
    StoreInvariant
    MoveFindsAccessTime
PROPERTY
    ImplementsContract
CHECK_DEADLOCK FALSE
