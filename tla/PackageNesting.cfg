CONSTANTS
    N = 3
    Names = {a, b, c}
    Limits = {1, 2}
    Relations = {"<="}
SPECIFICATION Spec
INVARIANT LevelCoversDepth
INVARIANT NestingReported
