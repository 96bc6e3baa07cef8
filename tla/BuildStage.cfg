SPECIFICATION Spec
CONSTANTS
    f = f
    g = g
    a = a
    b = b
    o = o
    NoFile = NoFile
    File = {f, g}
    Content = {a, b, o}
    Dockerfiles <- AnnotatedStages
    MaxBuilds = 2
INVARIANTS
    TypeOK
    ImageIsWhatIsDescribed
    StepsSeeWhatIsDescribed
    ConfigMatchesManifest
CHECK_DEADLOCK FALSE
