--------------------------- MODULE ConsumptionStats ---------------------------
(***************************************************************************)
(* The consumption statistics of the handset (libpowertutor.cpp): the      *)
(* energy and the cellular bytes consumed since the last reset, added up   *)
(* once a second from the state of the two radios and of the CPU.  The     *)
(* operators constrain only this module's variables; Handset conjoins them *)
(* with the trackers whose state they are given.                           *)
(***************************************************************************)
EXTENDS PowerModel

CONSTANTS
    MOBILE_IDLE_POWER, MOBILE_FACH_POWER, MOBILE_DCH_POWER,     \* mW
    WIFI_HIGH_POWER_BASE, WIFI_LOW_POWER,                       \* mW
    WIFI_PACKET_RATE_THRESHOLD, \* packets per second above which wifi is high
    MBPS,                       \* bytes per second that make one Mbit per second
    CHANNEL_RATE_POWER,         \* thousandths of a mW per Mbit per second
    CpuEnergies                 \* external: mJ the CPU may use in a second

\* What the constants are; Handset assumes it of its own.
PowerTypes ==
    /\ {MOBILE_IDLE_POWER, MOBILE_FACH_POWER, MOBILE_DCH_POWER} \subseteq Nat
    /\ MOBILE_IDLE_POWER <= MOBILE_FACH_POWER
    /\ MOBILE_FACH_POWER <= MOBILE_DCH_POWER
    /\ {WIFI_HIGH_POWER_BASE, WIFI_LOW_POWER} \subseteq Nat
    /\ WIFI_LOW_POWER <= WIFI_HIGH_POWER_BASE
    /\ WIFI_PACKET_RATE_THRESHOLD \in Nat
    /\ MBPS \in Nat \ {0}
    /\ CHANNEL_RATE_POWER \in Nat
    /\ CpuEnergies \subseteq Nat

VARIABLES
    now,
    last_reset,
    last_update,                    \* when a second was last charged
    energy_consumed_mJ,
    mobile_data_consumed_bytes

statsvars == <<last_update, energy_consumed_mJ, mobile_data_consumed_bytes>>

EnergyComponent == {"CPU", "NETWORKING", "ALL"}

power_coeff(state) ==
    CASE state = "IDLE" -> MOBILE_IDLE_POWER
      [] state = "FACH" -> MOBILE_FACH_POWER
      [] state = "DCH"  -> MOBILE_DCH_POWER

\* wifi_high_state(packet_rate, 0): a poll sends nothing itself.
WifiHigh(packet_rate) == packet_rate > WIFI_PACKET_RATE_THRESHOLD

\* Division that rounds towards 0, as the conversion to int does.
Truncated(a, b) == IF a >= 0 THEN a \div b ELSE -((-a) \div b)

\* wifi_channel_rate_component: (48 - 0.768 * 54) mW for each whole Mbit per
\* second of the uplink rate; 54 is the only channel rate the library reports.
wifi_channel_rate_component(uplink_rate) ==
    Truncated(CHANNEL_RATE_POWER * Truncated(uplink_rate, MBPS), 1000)

WifiPower(packet_rate, uplink_rate) ==
    IF WifiHigh(packet_rate)
    THEN WIFI_HIGH_POWER_BASE + wifi_channel_rate_component(uplink_rate)
    ELSE WIFI_LOW_POWER

ChargeDue == HasElapsedSecond(now - last_update)

\* What the charge leaves as the time of the last update.
NotRestamped == last_update
Restamped == now

StatsInit ==
    /\ last_update = now
    /\ energy_consumed_mJ = [c \in EnergyComponent |-> 0]
    /\ mobile_data_consumed_bytes = 0

\* update_consumption_stats, given what it reads of the trackers.
Charge(mobile_state, packet_rate, uplink_rate, delta_bytes) ==
    /\ ChargeDue
    /\ last_update' = Restamped
    /\ \E cpu \in CpuEnergies :
          LET networking == WifiPower(packet_rate, uplink_rate)
                            + power_coeff(mobile_state)
          IN  energy_consumed_mJ' =
                 [energy_consumed_mJ EXCEPT !["CPU"] = @ + cpu,
                                            !["NETWORKING"] = @ + networking,
                                            !["ALL"] = @ + cpu + networking]
    /\ mobile_data_consumed_bytes' =
          mobile_data_consumed_bytes + delta_bytes["DOWN"] + delta_bytes["UP"]

update_consumption_stats(mobile_state, packet_rate, uplink_rate, delta_bytes) ==
    \/ Charge(mobile_state, packet_rate, uplink_rate, delta_bytes)
    \/ ~ChargeDue /\ UNCHANGED statsvars

\* The statistics part of reset_stats; its update finds no second to charge.
ResetStatistics ==
    /\ last_update' = now
    /\ energy_consumed_mJ' = [c \in EnergyComponent |-> 0]
    /\ mobile_data_consumed_bytes' = 0

\* The least the radios can be charged for a second.
LeastNetworking == WIFI_LOW_POWER + MOBILE_IDLE_POWER
=============================================================================
