SPECIFICATION WidgetsSpec
CONSTANTS
    Items = 3
    Dialogs = {cookie, delayed}
    Hidden = {delayed}
    Delayed = {delayed}
    HideDelayed = {cookie}
    WithCookie = {cookie, delayed}
    MaxQueue = 3
    MaxFades = 4
INVARIANTS
    InStep
    StaysDismissed
    NothingPlaysOn
