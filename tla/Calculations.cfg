SPECIFICATION CalcSpec
CONSTANTS
    SECOND = 2
    MOBILE_DCH_INACTIVITY_TIMER = 8
    MOBILE_FACH_INACTIVITY_TIMER = 12
    MOBILE_DCH_THRESHOLD_DOWN = 119
    MOBILE_DCH_THRESHOLD_UP = 151
    MOBILE_FACH_POWER = 406
    MOBILE_DCH_POWER = 902
    HDR_SIZE = 52
    SIZE_MAX = 1023
    ON_HANDSET = TRUE
    IdleDurations = {0, 7, 8, 9, 12, 13}
    Datalens = {0, 1, 100}
    Bandwidths = {1, 7, 64}
    Rtts = {0, 1, 3}
    Queues <- MCQueues
    WIFI_HIGH_POWER_BASE = 405
    WIFI_LOW_POWER = 34
    WIFI_PACKET_RATE_THRESHOLD = 15
    WIFI_DEV_MTU = 1500
    WIFI_HDR_SIZE = 52
    cpu_freq_power_coeffs <- MCCoeffs
    min_cpu_freq = 245
    max_cpu_freq_coeff = 548
    COEFF_UNIT = 100
    MAX_SUBSECS = 4
INVARIANTS
    EstimatesMarginalEnergy
    WifiEstimateCovers
    CpuChargeBelowPegged
    TimevalsAddUp
