SPECIFICATION FairSpec
CONSTANTS
    Worker = {w1, w2}
    base = base
    config1 = config1
    config2 = config2
    image1 = image1
    image2 = image2
    Blob = {base, config1}
    Image = {image1}
    LayersOf <- Layers
    ConfigOf <- Configs
    None = None
INVARIANTS
    TypeOK
    TaggedImageIsComplete
    NoTaskIsDropped
    StoredBlobsAreVerified
PROPERTIES
    JobsEnd
