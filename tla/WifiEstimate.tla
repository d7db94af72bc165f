---------------------------- MODULE WifiEstimate ----------------------------
(***************************************************************************)
(* The estimate of what a transfer over wifi will cost (libpowertutor.cpp):*)
(* the functor get_energy_computer(TYPE_WIFI) returns.  The code divides   *)
(* in doubles; here the time a transfer takes is the rational              *)
(* datalen/bandwidth, in ticks, and only its rounding is an integer.       *)
(***************************************************************************)
EXTENDS PowerModel

CONSTANTS
    WIFI_HIGH_POWER_BASE, WIFI_LOW_POWER,   \* mW
    WIFI_PACKET_RATE_THRESHOLD,             \* packets per second
    WIFI_DEV_MTU, WIFI_HDR_SIZE             \* bytes

ASSUME WifiEstimateAssumption ==
    /\ {WIFI_HIGH_POWER_BASE, WIFI_LOW_POWER, WIFI_PACKET_RATE_THRESHOLD,
        WIFI_DEV_MTU, WIFI_HDR_SIZE} \subseteq Nat
    /\ WIFI_LOW_POWER <= WIFI_HIGH_POWER_BASE
    /\ WIFI_HDR_SIZE < WIFI_DEV_MTU

wifi_mtu == WIFI_DEV_MTU - WIFI_HDR_SIZE

\* The packets a transfer takes, rounded up.
cur_packets(datalen) ==
    datalen \div wifi_mtu + IF datalen % wifi_mtu > 0 THEN 1 ELSE 0

wifi_high_state(packet_rate, datalen) ==
    cur_packets(datalen) + packet_rate > WIFI_PACKET_RATE_THRESHOLD

\* c has been bound: the packet rate and the power of the channel rate.
TransferPower(c, t) ==
    IF wifi_high_state(c.packet_rate, t.datalen)
    THEN WIFI_HIGH_POWER_BASE + c.channel_rate_component ELSE WIFI_LOW_POWER

\* ceil(datalen / bandwidth + rtt): a second in which the radio is high for a
\* moment counts as a whole.
WholeSecondsAndOne(t) ==
    (t.datalen + t.bandwidth * t.rtt) \div (t.bandwidth * SECOND) + 1
WholeSeconds(t) ==
    (t.datalen + t.bandwidth * t.rtt + t.bandwidth * SECOND - 1)
        \div (t.bandwidth * SECOND)

estimate_wifi_energy_cost(c, t) == WholeSeconds(t) * TransferPower(c, t)
=============================================================================
