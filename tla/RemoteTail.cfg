SPECIFICATION ReportingSpec
CONSTANTS
    SECOND = 2
    MOBILE_DCH_INACTIVITY_TIMER = 4
    MOBILE_FACH_INACTIVITY_TIMER = 3
    MOBILE_DCH_THRESHOLD_DOWN = 119
    MOBILE_DCH_THRESHOLD_UP = 151
    REMOTE_POWER_STATE_INVALID_TIMEOUT = 3
    StartTime = 2
    FOLLOWS_HEADER = TRUE
    ONLY_ACTIVITIES = FALSE
    MaxPollGap = 1
    MaxDelay = 2
    PacketRates = {6}
    ResetTimes = {8}
    MaxInFlight = 2
    MaxTime = 16
PROPERTIES
    ServerFullTail
