SPECIFICATION Spec
CONSTANTS
    MaxLength = 7
    MaxLimit = 4
    Texts <- MCTexts
    Limits <- MCLimits
INVARIANT ChunkWithinLimit
