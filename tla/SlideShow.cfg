SPECIFICATION FairSpec
CONSTANTS
    Stages = 3
    DataNames = {1}
    Ids = {3}
    DotOf <- Dots
    ToSlides = {4}
    ScrollSizes = {1}
    MinScrollToSlide = 2
    MaxScroll = 2
    EffectSpeed = 3
    SlideSpeed = 3
    EffectOffset = 1
    Soon = 1
    WheelPause = 1
    LoadPause = 1
    ZoomPause = 2
    MaxPending = 3
INVARIANTS
    TypeOK
    PartsAgree
    LocksAreReleased
    OnlySelectedStays
    SelectedIsShown
PROPERTIES
    ChangesEnd
