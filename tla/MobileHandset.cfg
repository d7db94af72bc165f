SPECIFICATION QueriesSpec
CONSTANTS
    SECOND = 2
    MOBILE_DCH_INACTIVITY_TIMER = 3
    MOBILE_FACH_INACTIVITY_TIMER = 2
    MOBILE_DCH_THRESHOLD_DOWN = 2
    MOBILE_DCH_THRESHOLD_UP = 3
    SIMULATION_BUILD = FALSE
    IFACE_RESTARTS = FALSE
    INT_MAX = 9
    MinPollGap = 1
    MaxPollGap = 1
    ResetTimes = {7}
    StartTime = 2
    Transfers = {1, 3}
    MaxTime = 16
    MaxBytes = 5
    QueryTimes = {6}
    MaxQueryTime = 1
    MOBILE_FACH_POWER = 406
    MOBILE_DCH_POWER = 902
    HDR_SIZE = 52
    SIZE_MAX = 1023
    AverageTransfer <- MCAverageTransfer
INVARIANTS
    TypeOK
    QueueIsFresh
    TailBounded
PROPERTIES
    QueueNonNegative
    NoDemotionOverUnseenTraffic
    ImplementsRadioTail
