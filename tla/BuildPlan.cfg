SPECIFICATION Spec
CONSTANTS
    f = f
    g = g
    a = a
    b = b
    o = o
    p = p
    NoFile = NoFile
    File = {f, g}
    Content = {a, b, o, p}
    Scratch = "scratch"
    Registry <- Images
    RepoTag <- SavedAs
    InvalidName <- NoNames
    WorkingDir <- Dirs
    RootFiles <- OldRoot
    Requests <- Commands
    MaxBuilds = 2
INVARIANTS
    PlanInvariant
    ImageIsTargetStage
    FailsOnlyIfWrong
PROPERTIES
    IdsKeepTheirLayers
CHECK_DEADLOCK FALSE
