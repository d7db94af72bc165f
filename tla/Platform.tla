------------------------------ MODULE Platform ------------------------------
(***************************************************************************)
(* What the trackers of the handset run on: the build, the clock, the      *)
(* schedule of polls and resets, and the network interfaces whose counters *)
(* the library polls.                                                      *)
(***************************************************************************)
EXTENDS PowerModel

CONSTANTS
    SIMULATION_BUILD,   \* mocked counters: never unreadable, cleared by a reset
    IFACE_RESTARTS,     \* an interface may go away and come back from zero
    INT_MAX,            \* largest counter `in >> int` can parse
    MinPollGap,         \* environment: shortest time between two polls
    MaxPollGap,         \* environment: longest time between two polls
    ResetTimes,         \* environment: instants at which the application may reset
    StartTime,          \* the clock when the library is loaded
    MaxTime             \* bound of the model: the clock stops here

ASSUME PlatformAssumption ==
    /\ SIMULATION_BUILD \in BOOLEAN
    /\ IFACE_RESTARTS \in BOOLEAN
    /\ SIMULATION_BUILD => ~IFACE_RESTARTS
    /\ INT_MAX \in Nat
    /\ MinPollGap \in Nat
    /\ MaxPollGap \in Nat \ {0}
    /\ ResetTimes \subseteq Nat
    /\ MaxTime \in Nat

\* The clock is a real one: its tv_sec, which update_mobile_state compares with 0
\* before it adds up a stay, is not 0.
ASSUME ClockAssumption == StartTime \in Nat /\ HasElapsedSecond(StartTime)

NoCount   == [d \in Direction |-> 0]
Unsampled == [d \in Direction |-> -1]

\* get_net_dev_stats: fails if the interface is not listed, or a count does not
\* fit an int.  The mocked interfaces of the simulation are always there.
Readable(up, counts) ==
    \/ SIMULATION_BUILD
    \/ up /\ \A d \in Direction : counts[d] <= INT_MAX
=============================================================================
