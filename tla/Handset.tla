------------------------------- MODULE Handset -------------------------------
(***************************************************************************)
(* The library on the handset (libpowertutor.cpp): update_energy_stats     *)
(* polls the wifi tracker and the mobile tracker, tells the registered     *)
(* callback of activity, and charges the consumption statistics.  This     *)
(* module composes MobileTracker, WifiTracker and ConsumptionStats over    *)
(* one clock and one schedule of polls.                                    *)
(***************************************************************************)
EXTENDS MobileTracker

CONSTANTS
    WIFI_PACKET_RATE_THRESHOLD, WIFI_REPORT_RATE, WifiBursts, MaxPackets,
    MOBILE_IDLE_POWER, MOBILE_FACH_POWER, MOBILE_DCH_POWER,
    WIFI_HIGH_POWER_BASE, WIFI_LOW_POWER, MBPS, CHANNEL_RATE_POWER,
    CpuEnergies,
    MaxCarried      \* bound of the model: cellular bytes between two resets

VARIABLES
    wifi_dev, wifi_data_rates, wifi_packet_rates, wifi_last_bytes,
    wifi_last_packets, last_wifi_observation,
    last_update, energy_consumed_mJ, mobile_data_consumed_bytes,
    mobile_activity_callback,   \* is one registered
    report,                     \* what the last poll told it
    carried_bytes               \* history: cellular bytes since the last reset

Wifi  == INSTANCE WifiTracker
Stats == INSTANCE ConsumptionStats

ASSUME PowerAssumption == Stats!PowerTypes
ASSUME BurstAssumption ==
    WifiBursts \subseteq [packets : Nat \ {0}, bytes : Nat \ {0}]

wifistate == <<wifi_dev, wifi_data_rates, wifi_packet_rates, wifi_last_bytes,
               wifi_last_packets, last_wifi_observation>>
statistics == <<last_update, energy_consumed_mJ, mobile_data_consumed_bytes>>
reporting == <<mobile_activity_callback, report>>
handsetvars == <<mobilevars, wifistate, statistics, reporting, carried_bytes>>

NoReport == [mobile_state |-> "none"]

HandsetInit ==
    /\ MobileInit
    /\ Wifi!WifiInit
    /\ Stats!StatsInit
    /\ mobile_activity_callback = FALSE
    /\ report = NoReport
    /\ carried_bytes = 0
-----------------------------------------------------------------------------
(* The environment.                                                        *)

HandsetTick ==
    /\ Tick
    /\ UNCHANGED <<wifistate, statistics, reporting, carried_bytes>>

MobileTransfer ==
    /\ Transfer
    /\ carried_bytes' = carried_bytes + mobile_dev'.bytes["DOWN"] - mobile_dev.bytes["DOWN"]
                                      + mobile_dev'.bytes["UP"] - mobile_dev.bytes["UP"]
    /\ carried_bytes' <= MaxCarried
    /\ UNCHANGED <<wifistate, statistics, reporting>>

MobileDevChange ==
    /\ DevDown \/ DevUp
    /\ UNCHANGED <<wifistate, statistics, reporting, carried_bytes>>

WifiDevChange ==
    /\ Wifi!WifiTransfer \/ Wifi!WifiDown \/ Wifi!WifiUp
    /\ UNCHANGED <<mobilevars, statistics, reporting, carried_bytes>>
-----------------------------------------------------------------------------
(* update_energy_stats.                                                    *)

\* The poll found activity on the cellular interface.
MobileFires == CanRead /\ Sampled /\ mobile_last_bytes["DOWN"] # -1

FireOnWifiOnly == Wifi!WifiFires
FireCallback == Wifi!WifiFires \/ MobileFires

\* The callback is given the state as the poll leaves it, and a queue length
\* that also counts what the interface carried since the last sample.  It is the
\* polling thread that asks, so no poll of its own comes between counters and lock.
ReportActivity ==
    report' = IF FireCallback /\ mobile_activity_callback
              THEN [mobile_state     |-> mobile_state',
                    mobile_queue_len |-> [DOWN |-> QueueNow("DOWN")',
                                          UP   |-> QueueNow("UP")'],
                    wifi_packet_rate |-> Wifi!PacketRate(wifi_packet_rates')]
              ELSE NoReport

\* One tracker failing to read its interface does not stop the other one.
StopAtWifiFailure ==
    /\ Wifi!update_wifi_estimated_rates
    /\ IF Wifi!CanReadWifi THEN update_mobile_state ELSE UNCHANGED <<estimate, idlevars>>
StopAtMobileFailure ==
    /\ update_mobile_state
    /\ IF CanRead THEN Wifi!update_wifi_estimated_rates ELSE UNCHANGED wifistate
UpdateTrackers ==
    /\ Wifi!update_wifi_estimated_rates
    /\ update_mobile_state

UpdateEnergyStats ==
    /\ now - last_poll >= MinPollGap
    /\ last_poll' = now
    /\ UNCHANGED <<now, mobile_dev, wifi_dev, last_reset, last_traffic,
                   mobile_activity_callback, carried_bytes>>
    /\ UpdateTrackers
    /\ ReportActivity
    /\ Stats!update_consumption_stats(mobile_state',
                                      Wifi!PacketRate(wifi_packet_rates'),
                                      wifi_data_rates'["UP"],
                                      mobile_last_delta_bytes')

\* reset_stats; the update it ends with finds nothing to report or to charge.
HandsetReset ==
    /\ ResetStats
    /\ Wifi!WifiReset
    /\ Stats!ResetStatistics
    /\ report' = NoReport
    /\ carried_bytes' = 0
    /\ UNCHANGED mobile_activity_callback

\* register_mobile_activity_callback, with a callback or with NULL.
RegisterCallback ==
    /\ mobile_activity_callback' \in BOOLEAN
    /\ UNCHANGED <<mobilevars, wifistate, statistics, report, carried_bytes>>

HandsetHorizon ==
    /\ Horizon
    /\ UNCHANGED handsetvars

HandsetNext ==
    \/ HandsetTick \/ MobileTransfer \/ MobileDevChange \/ WifiDevChange
    \/ HandsetHorizon
    \/ UpdateEnergyStats
    \/ HandsetReset
    \/ RegisterCallback

HandsetSpec == HandsetInit /\ [][HandsetNext]_handsetvars
-----------------------------------------------------------------------------
(* Properties.                                                             *)

\* The statistics and the report keep their types; as long as no interface restarts
\* no count of bytes in them is negative.
HandsetTypeOK ==
    /\ last_update \in Nat
    /\ energy_consumed_mJ \in [Stats!EnergyComponent -> Nat]
    /\ mobile_data_consumed_bytes \in Nat
    /\ mobile_activity_callback \in BOOLEAN
    /\ report = NoReport \/ report \in [mobile_state : MobileState,
                                        mobile_queue_len : [Direction -> Nat],
                                        wifi_packet_rate : Int]

\* Inside the composition the mobile tracker and the wifi tracker each run as
\* they run alone: neither a failure nor a reset of one disturbs the other.
RunsMobileTracker == MobileSpec
RunsWifiTracker   == Wifi!WifiSpec

\* energy_consumed_since_reset: no second is charged twice, and the time left
\* uncharged is what update_consumption_stats loses by charging one second when
\* more than one has passed, less than one gap between polls for each.
EnergyFollowsTime ==
    LET charged == last_update - last_reset
        longest == SECOND + MaxPollGap - 1
    IN  /\ now - last_update <= longest
        /\ energy_consumed_mJ["NETWORKING"] * longest >= Stats!LeastNetworking * charged
        /\ \E cpu \in CpuEnergies : energy_consumed_mJ["CPU"] * SECOND <= cpu * charged

\* mobile_bytes_consumed_since_reset, "the number of bytes sent on a cellular
\* interface since last reset", never exceeds that number: a sample is charged
\* once, although samples and charges have clocks of their own.
NoByteCountedTwice == mobile_data_consumed_bytes <= carried_bytes

\* The same comment, read from the other side: no poll drops the bytes of a sample
\* before they have been charged.
SampledBytesAreCounted ==
    [][UpdateEnergyStats /\ mobile_last_delta_bytes # NoCount
                         /\ mobile_last_delta_bytes' # mobile_last_delta_bytes =>
          last_update >= last_mobile_sample_time]_handsetvars

\* "Applications can use it to be notified when there is activity on the 3G
\* interface": every poll that promotes the radio, or keeps it up because of
\* bytes it sampled, tells the callback, with a queue length the receiver
\* (report_remote_mobile_activity) recognises as activity.
PromotionsAreReported ==
    [][UpdateEnergyStats /\ mobile_activity_callback
                         /\ mobile_last_delta_bytes' # NoCount =>
          /\ report' # NoReport
          /\ report'.mobile_queue_len["DOWN"] + report'.mobile_queue_len["UP"] > 0
      ]_handsetvars
=============================================================================
