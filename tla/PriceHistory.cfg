SPECIFICATION Spec
CONSTANTS
    Window = 4
    Reread = 2
    FreshFor = 1
    PageSize = 2
    MaxNow = 7
CHECK_DEADLOCK FALSE
INVARIANTS CoverageHonest
PROPERTIES NothingForgotten
