----------------------------- MODULE PowerModel -----------------------------
(***************************************************************************)
(* The parameters of the radio power model (power_model.h, power_model.cpp)*)
(* and the few operators every component shares.                           *)
(*                                                                         *)
(* Time is counted in ticks, SECOND of them to a second: a `struct timeval`*)
(* is a natural number of ticks, TIMEDIFF is subtraction, and a test of    *)
(* tv_sec is a comparison with SECOND.  The two power models the library   *)
(* ships (HTC Dream and Nexus One) are two valuations of the constants.    *)
(***************************************************************************)
EXTENDS Integers

CONSTANTS
    SECOND,                         \* ticks in a second
    MOBILE_DCH_INACTIVITY_TIMER,    \* ticks without activity before DCH is left
    MOBILE_FACH_INACTIVITY_TIMER,   \* ticks without activity before FACH is left
    MOBILE_DCH_THRESHOLD_DOWN,      \* bytes of downlink queue that promote to DCH
    MOBILE_DCH_THRESHOLD_UP         \* bytes of uplink queue that promote to DCH

(***************************************************************************)
(* Both shipped models have DCH and FACH timers of 4 and 6 seconds: longer *)
(* than the second between two samples of the byte counters, which is all  *)
(* the tracker needs.                                                      *)
(***************************************************************************)
ASSUME SecondAssumption == SECOND \in Nat \ {0}

ASSUME TimerAssumption ==
    /\ MOBILE_DCH_INACTIVITY_TIMER \in Nat
    /\ MOBILE_FACH_INACTIVITY_TIMER \in Nat
    /\ MOBILE_DCH_INACTIVITY_TIMER >= SECOND
    /\ MOBILE_FACH_INACTIVITY_TIMER >= SECOND

ASSUME ThresholdAssumption ==
    /\ MOBILE_DCH_THRESHOLD_DOWN \in Nat \ {0}
    /\ MOBILE_DCH_THRESHOLD_UP \in Nat \ {0}

MobileState == {"IDLE", "FACH", "DCH"}
Direction   == {"DOWN", "UP"}

\* diff.tv_sec >= 1, the library's test for "a second has passed".
HasElapsedSecond(t) == t >= SECOND

get_dch_threshold(d) ==
    IF d = "DOWN" THEN MOBILE_DCH_THRESHOLD_DOWN ELSE MOBILE_DCH_THRESHOLD_UP

\* The inactivity timer that ends a stay in FACH or DCH.
InactivityTimer(s) ==
    IF s = "DCH" THEN MOBILE_DCH_INACTIVITY_TIMER ELSE MOBILE_FACH_INACTIVITY_TIMER

\* The state the radio falls back to when that timer expires.
Demoted(s) == IF s = "DCH" THEN "FACH" ELSE "IDLE"
=============================================================================
