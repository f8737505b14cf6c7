SPECIFICATION Spec
CONSTANTS
    Stages = 3
    Contents <- Heights
    WindowHeights = {2}
    ToSlides = {4}
    MaxPending = 1
INVARIANTS
    MiddleIsSelected
    DotFollows
