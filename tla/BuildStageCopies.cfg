SPECIFICATION Spec
CONSTANTS
    f = f
    g = g
    a = a
    b = b
    o = o
    NoFile = NoFile
    File = {f, g}
    Content = {a, b, o}
    Dockerfiles <- EditedCopies
    MaxBuilds = 2
INVARIANTS
    ImageIsWhatIsDescribed
CHECK_DEADLOCK FALSE
