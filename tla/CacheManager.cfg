SPECIFICATION FairSpec
CONSTANTS
    Builder = {b1, b2}
    CacheID = {c1}
    Layer = {l1}
    Push = {k1, k2}
    Empty = Empty
    None = None
    HasRegistry = TRUE
INVARIANTS
    TypeOK
    MappedLayersArePushed
    CleanWaitMeansStored
PROPERTIES
    PushesEnd
