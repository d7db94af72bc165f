SPECIFICATION FairThreadsSpec
CONSTANTS
    SECOND = 2
    MOBILE_DCH_INACTIVITY_TIMER = 8
    MOBILE_FACH_INACTIVITY_TIMER = 12
    MOBILE_DCH_THRESHOLD_DOWN = 119
    MOBILE_DCH_THRESHOLD_UP = 151
    Updater = Updater
    App = App
    NoThread = NoThread
    CONCURRENT_RESETS = FALSE
    MaxResetTime = 1
    StartTime = 2
    MaxTime = 8
INVARIANTS
    ThreadsTypeOK
    AssertionsHold
    NoThreadWaitsForItself
    NoPollAfterFin
PROPERTIES
    PollsGoOn
    CallsReturn
    FinStopsThread
