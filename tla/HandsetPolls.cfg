SPECIFICATION HandsetSpec
CONSTANTS
    SECOND = 2
    MOBILE_DCH_INACTIVITY_TIMER = 2
    MOBILE_FACH_INACTIVITY_TIMER = 2
    MOBILE_DCH_THRESHOLD_DOWN = 2
    MOBILE_DCH_THRESHOLD_UP = 3
    SIMULATION_BUILD = TRUE
    IFACE_RESTARTS = FALSE
    INT_MAX = 99
    MinPollGap = 1
    MaxPollGap = 2
    ResetTimes = {6}
    StartTime = 2
    MaxTime = 10
    Transfers = {2}
    MaxBytes = 2
    WIFI_PACKET_RATE_THRESHOLD = 2
    WIFI_REPORT_RATE = 1
    MaxPackets = 3
    MOBILE_IDLE_POWER = 10
    MOBILE_FACH_POWER = 406
    MOBILE_DCH_POWER = 902
    WIFI_HIGH_POWER_BASE = 405
    WIFI_LOW_POWER = 34
    MBPS = 2
    CHANNEL_RATE_POWER = 6528
    CpuEnergies = {1}
    MaxCarried = 8
    WifiBursts <- MCBursts
INVARIANTS
    HandsetTypeOK
    EnergyFollowsTime
    NoByteCountedTwice
PROPERTIES
    PromotionsAreReported
