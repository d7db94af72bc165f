----------------------------- MODULE WifiTracker -----------------------------
(***************************************************************************)
(* The handset's tracker of its wifi radio (libpowertutor.cpp): the wifi_* *)
(* statics, update_wifi_estimated_rates and the part of reset_stats that   *)
(* touches them.  The tracker turns the counters of the wifi interface     *)
(* into byte and packet rates, from which the power model reads whether    *)
(* the radio is in its high-power state.                                   *)
(*                                                                         *)
(* One poll is one step, as in MobileTracker.                              *)
(***************************************************************************)
EXTENDS Platform

CONSTANTS
    WIFI_PACKET_RATE_THRESHOLD, \* packets per second above which the radio is high
    WIFI_REPORT_RATE,           \* packets per second above which a poll is reported
    WifiBursts,                 \* environment: [packets, bytes] a transfer may have
    MaxPackets                  \* bound of the model: the counters stop here

ASSUME WifiAssumption ==
    /\ WIFI_PACKET_RATE_THRESHOLD \in Nat
    /\ WIFI_REPORT_RATE \in Nat
    /\ WifiBursts \subseteq [packets : Nat \ {0}, bytes : Nat \ {0}]
    /\ MaxPackets \in Nat

VARIABLES
    now,
    wifi_dev,               \* the interface: is it listed, its two pairs of counters
    wifi_data_rates,        \* bytes per second, -1 before the second observation
    wifi_packet_rates,      \* packets per second, -1 before the second observation
    wifi_last_bytes,        \* counters at the last observation, -1 before the first
    wifi_last_packets,
    last_wifi_observation,
    last_poll               \* history: when the last poll ran

rates == <<wifi_data_rates, wifi_packet_rates>>
counts == <<wifi_last_bytes, wifi_last_packets, last_wifi_observation>>
wifivars == <<now, wifi_dev, rates, counts, last_poll>>
-----------------------------------------------------------------------------
CanReadWifi ==
    /\ Readable(wifi_dev.up, wifi_dev.bytes)
    /\ Readable(wifi_dev.up, wifi_dev.packets)

\* The library is loaded; the update at the end of reset_stats comes too soon
\* after the observation time it has just set to observe anything.
WifiInit ==
    /\ now = StartTime
    /\ wifi_dev \in [up : IF IFACE_RESTARTS THEN BOOLEAN ELSE {TRUE},
                     bytes : {NoCount}, packets : {NoCount}]
    /\ wifi_data_rates = Unsampled
    /\ wifi_packet_rates = Unsampled
    /\ wifi_last_bytes = Unsampled
    /\ wifi_last_packets = Unsampled
    /\ last_wifi_observation = now
    /\ last_poll = now
-----------------------------------------------------------------------------
(* The environment: the clock and the interface.                           *)

WifiTick ==
    /\ now < MaxTime
    /\ now - last_poll < MaxPollGap
    /\ now' = now + 1
    /\ UNCHANGED <<wifi_dev, rates, counts, last_poll>>

WifiTransfer ==
    /\ wifi_dev.up
    /\ \E d \in Direction, burst \in WifiBursts :
          /\ wifi_dev.packets[d] + burst.packets <= MaxPackets
          /\ wifi_dev' = [wifi_dev EXCEPT !.packets[d] = @ + burst.packets,
                                          !.bytes[d] = @ + burst.bytes]
    /\ UNCHANGED <<now, rates, counts, last_poll>>

WifiDown ==
    /\ IFACE_RESTARTS
    /\ wifi_dev.up
    /\ wifi_dev' = [wifi_dev EXCEPT !.up = FALSE]
    /\ UNCHANGED <<now, rates, counts, last_poll>>

WifiUp ==
    /\ ~wifi_dev.up
    /\ wifi_dev' = [up |-> TRUE, bytes |-> NoCount, packets |-> NoCount]
    /\ UNCHANGED <<now, rates, counts, last_poll>>
-----------------------------------------------------------------------------
(* update_wifi_estimated_rates.  As in MobileTracker, a definition named   *)
(* for a slip stands before the one it is a slip of.                       *)

CeilDiv(a, b) == -((-a) \div b)

\* calc_rates: (int)ceil((current - last) / duration), with duration in seconds.
CalcRatesTruncated(current, last, duration) ==
    [d \in Direction |-> ((current[d] - last[d]) * SECOND) \div duration]
CalcRatesBackwards(current, last, duration) ==
    [d \in Direction |-> CeilDiv((last[d] - current[d]) * SECOND, duration)]
CalcRates(current, last, duration) ==
    [d \in Direction |-> CeilDiv((current[d] - last[d]) * SECOND, duration)]

SinceObservation == now - last_wifi_observation

\* wifi_packet_rate()
PacketRate(r) == r["DOWN"] + r["UP"]

WifiReadFails ==
    /\ ~CanReadWifi
    /\ UNCHANGED <<rates, counts>>

\* Too soon to sample again; wait until a second has passed.
WifiTooSoon ==
    /\ CanReadWifi
    /\ ~HasElapsedSecond(SinceObservation)
    /\ UNCHANGED <<rates, counts>>

\* store_counts, twice, and the time of the observation.
StoreWithoutPackets ==
    /\ wifi_last_bytes' = wifi_dev.bytes
    /\ UNCHANGED wifi_last_packets
    /\ last_wifi_observation' = now
StoreDownOnly ==
    /\ wifi_last_bytes' = [wifi_last_bytes EXCEPT !["DOWN"] = wifi_dev.bytes["DOWN"]]
    /\ wifi_last_packets' = [wifi_last_packets EXCEPT !["DOWN"] = wifi_dev.packets["DOWN"]]
    /\ last_wifi_observation' = now
StoreCounts ==
    /\ wifi_last_bytes' = wifi_dev.bytes
    /\ wifi_last_packets' = wifi_dev.packets
    /\ last_wifi_observation' = now

WifiFirstObservation ==
    /\ CanReadWifi
    /\ HasElapsedSecond(SinceObservation)
    /\ wifi_last_bytes["DOWN"] = -1
    /\ UNCHANGED rates
    /\ StoreCounts

WifiObservation ==
    /\ CanReadWifi
    /\ HasElapsedSecond(SinceObservation)
    /\ wifi_last_bytes["DOWN"] # -1
    /\ wifi_data_rates' =
          CalcRates(wifi_dev.bytes, wifi_last_bytes, SinceObservation)
    /\ wifi_packet_rates' =
          CalcRates(wifi_dev.packets, wifi_last_packets, SinceObservation)
    /\ StoreCounts

update_wifi_estimated_rates ==
    \/ WifiReadFails
    \/ WifiTooSoon
    \/ WifiFirstObservation
    \/ WifiObservation

\* The poll asks for the activity callback: it observed, and the rate is high
\* enough "to have an impact on small, frequent packet streams".
WifiFires ==
    /\ CanReadWifi
    /\ HasElapsedSecond(SinceObservation)
    /\ PacketRate(wifi_packet_rates') > WIFI_REPORT_RATE

WifiPoll ==
    /\ now - last_poll >= MinPollGap
    /\ update_wifi_estimated_rates
    /\ last_poll' = now
    /\ UNCHANGED <<now, wifi_dev>>

\* The wifi part of reset_stats; the update it ends with comes too soon.
ResetWifiCountsOnly ==
    /\ UNCHANGED rates
    /\ wifi_last_bytes' = Unsampled
    /\ wifi_last_packets' = Unsampled
    /\ last_wifi_observation' = now
ResetWifiState ==
    /\ wifi_data_rates' = Unsampled
    /\ wifi_packet_rates' = Unsampled
    /\ wifi_last_bytes' = Unsampled
    /\ wifi_last_packets' = Unsampled
    /\ last_wifi_observation' = now

WifiReset ==
    /\ now \in ResetTimes
    /\ wifi_dev' = IF SIMULATION_BUILD
                   THEN [wifi_dev EXCEPT !.bytes = NoCount, !.packets = NoCount]
                   ELSE wifi_dev
    /\ ResetWifiState
    /\ last_poll' = now
    /\ now' = now

\* The bound on the clock is reached; nothing else may stop the tracker.
WifiHorizon ==
    /\ now = MaxTime
    /\ UNCHANGED wifivars

WifiNext ==
    \/ WifiTick \/ WifiTransfer \/ WifiDown \/ WifiUp \/ WifiHorizon
    \/ WifiPoll
    \/ WifiReset

WifiSpec == WifiInit /\ [][WifiNext]_wifivars
-----------------------------------------------------------------------------
(* Properties.                                                             *)

WifiTypeOK ==
    /\ now \in Nat
    /\ wifi_dev \in [up : BOOLEAN, bytes : [Direction -> Nat],
                     packets : [Direction -> Nat]]
    /\ {last_wifi_observation, last_poll} \subseteq Nat
    /\ {wifi_data_rates, wifi_packet_rates} \subseteq [Direction -> Int]
    /\ {wifi_last_bytes, wifi_last_packets}
          \subseteq [Direction -> Nat] \cup {Unsampled}

\* The assertion in update_wifi_estimated_rates: before the first observation of
\* bytes, nothing else about the wifi radio is known either.
FirstObservationAssert ==
    wifi_last_bytes["DOWN"] = -1 =>
        /\ wifi_last_bytes = Unsampled
        /\ wifi_last_packets = Unsampled
        /\ wifi_data_rates = Unsampled
        /\ wifi_packet_rates = Unsampled

\* What network_state_test.cpp asserts of the two queries ("Got packet rate",
\* "Got uplink data rate"): once there are rates, neither is negative.
RatesNonNegative ==
    wifi_packet_rates # Unsampled =>
        PacketRate(wifi_packet_rates) >= 0 /\ wifi_data_rates["UP"] >= 0
=============================================================================
