SPECIFICATION Spec
CONSTANTS
    Vars <- MCVars
    NameRunes <- MCNameRunes
    SpaceRunes <- MCSpaceRunes
    Bytes <- MCBytes
    Texts <- MCTexts
INVARIANT ReadAsMeant
CHECK_DEADLOCK FALSE
