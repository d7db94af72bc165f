SPECIFICATION HistorySpec
CONSTANTS
    SECOND = 2
    MOBILE_DCH_INACTIVITY_TIMER = 2
    MOBILE_FACH_INACTIVITY_TIMER = 3
    MOBILE_DCH_THRESHOLD_DOWN = 2
    MOBILE_DCH_THRESHOLD_UP = 3
    WIFI_PACKET_RATE_THRESHOLD = 2
    WIFI_REPORT_RATE = 1
    SIMULATION_BUILD = FALSE
    IFACE_RESTARTS = FALSE
    INT_MAX = 99
    MinPollGap = 1
    MaxPollGap = 2
    ResetTimes = {9}
    StartTime = 2
    MaxTime = 16
    WifiBursts <- MCBursts
    MaxPackets = 4
INVARIANTS
    WifiTypeOK
    FirstObservationAssert
    RatesCoverTraffic
    RatesNonNegative
    SilentWifiIsLow
