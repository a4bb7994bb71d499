CONSTANTS
    LineCap = 3
    PipeCap = 2
SPECIFICATION FairSpec
INVARIANT StuckOnlyBeyondCap
PROPERTY MeetsContract
