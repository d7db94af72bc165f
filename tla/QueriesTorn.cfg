SPECIFICATION QueriesSpec
CONSTANTS
    SECOND = 2
    MOBILE_DCH_INACTIVITY_TIMER = 2
    MOBILE_FACH_INACTIVITY_TIMER = 2
    MOBILE_DCH_THRESHOLD_DOWN = 2
    MOBILE_DCH_THRESHOLD_UP = 3
    SIMULATION_BUILD = FALSE
    IFACE_RESTARTS = TRUE
    INT_MAX = 4
    MinPollGap = 1
    MaxPollGap = 2
    ResetTimes = {8}
    StartTime = 2
    Transfers = {3}
    MaxTime = 10
    MaxBytes = 6
    QueryTimes = {8}
    MaxQueryTime = 1
    MOBILE_FACH_POWER = 406
    MOBILE_DCH_POWER = 902
    HDR_SIZE = 52
    SIZE_MAX = 1023
    AverageTransfer <- MCAverageTransfer
PROPERTIES
    BoundToOneMoment
