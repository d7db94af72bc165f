----------------------------- MODULE WifiHistory -----------------------------
(***************************************************************************)
(* WifiTracker with history variables, for the properties that relate the  *)
(* rates to everything the interface has carried.  The history follows the *)
(* tracker and never restricts it.                                         *)
(***************************************************************************)
EXTENDS WifiTracker

VARIABLES
    last_wifi_traffic,      \* when the interface last carried a packet
    first_packets,          \* the counters at the first observation,
    first_observation,      \*   and when it was made
    packets_estimated       \* rate times time, summed over all observations

history == <<last_wifi_traffic, first_packets, first_observation, packets_estimated>>

HistoryInit ==
    /\ WifiInit
    /\ last_wifi_traffic = now
    /\ first_packets = Unsampled
    /\ first_observation = now
    /\ packets_estimated = NoCount

\* A poll extends the history if it made an observation.
HistoryPoll ==
    /\ WifiPoll
    /\ UNCHANGED last_wifi_traffic
    /\ \/ /\ last_wifi_observation' = last_wifi_observation
          /\ UNCHANGED <<first_packets, first_observation, packets_estimated>>
       \/ /\ last_wifi_observation' # last_wifi_observation
          /\ first_packets = Unsampled
          /\ first_packets' = wifi_dev.packets
          /\ first_observation' = now
          /\ UNCHANGED packets_estimated
       \/ /\ last_wifi_observation' # last_wifi_observation
          /\ first_packets # Unsampled
          /\ packets_estimated' = [d \in Direction |->
                packets_estimated[d] + wifi_packet_rates'[d] * SinceObservation]
          /\ UNCHANGED <<first_packets, first_observation>>

HistoryReset ==
    /\ WifiReset
    /\ first_packets' = Unsampled
    /\ first_observation' = now
    /\ packets_estimated' = NoCount
    /\ UNCHANGED last_wifi_traffic

HistoryNext ==
    \/ (WifiTick \/ WifiDown \/ WifiUp \/ WifiHorizon) /\ UNCHANGED history
    \/ /\ WifiTransfer
       /\ last_wifi_traffic' = now
       /\ UNCHANGED <<first_packets, first_observation, packets_estimated>>
    \/ HistoryPoll
    \/ HistoryReset

HistorySpec == HistoryInit /\ [][HistoryNext]_<<wifivars, history>>
-----------------------------------------------------------------------------
\* Summed over all observations since the first, rate times time covers every
\* packet the interface counted, and exceeds it by less than a packet for each
\* second observed: sampling the counters neither loses nor invents traffic,
\* whatever the delays between polls.
RatesCoverTraffic ==
    first_packets # Unsampled => \A d \in Direction :
        LET carried == SECOND * (wifi_last_packets[d] - first_packets[d])
        IN  /\ carried <= packets_estimated[d]
            /\ packets_estimated[d]
                  <= carried + (last_wifi_observation - first_observation)

\* A wifi radio that has been silent for two sampling intervals is known to be in
\* its low-power state.
SilentWifiIsLow ==
    now - last_wifi_traffic > 2 * (SECOND + MaxPollGap) =>
        PacketRate(wifi_packet_rates) <= WIFI_PACKET_RATE_THRESHOLD
=============================================================================
