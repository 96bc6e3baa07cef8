SPECIFICATION Spec
CONSTANTS
    Names <- MCNames
    HostEnv <- MCHostEnv
    Images <- MCImages
    Scratch <- MCScratch
    Passed <- MCPassed
    Unset = Unset
    Files <- MCFiles
    EveryFile = FALSE
INVARIANTS
    ImagesAreDescribed
    CommandsSeeTheirStage
CHECK_DEADLOCK FALSE
