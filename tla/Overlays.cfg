SPECIFICATION Spec
CONSTANTS
    Sidebars = {s1, s2}
    Popups = {p1, p2}
    Dropdowns = {d1, d2}
    Animated = {s1, s2, p1}
    Soon = 1
    Pause = 2
    MaxPending = 3
    MaxStack = 2
INVARIANTS
    PanelsAreKnown
    PopupsAgree
    SlidingReleased
SYMMETRY Alike
