------------------------------ MODULE RadioTail ------------------------------
(***************************************************************************)
(* What a tracker of the cellular radio promises, whatever feeds it: the   *)
(* radio climbs on activity and comes down one state at a time, each step  *)
(* down only after a full inactivity timer, counted from the later of the  *)
(* last activity and the last step down.  The code states this promise in  *)
(* the comments of update_mobile_state ("so that we wait for the full FACH *)
(* timeout before going to IDLE").                                         *)
(***************************************************************************)
EXTENDS PowerModel

VARIABLES
    now,        \* the clock
    state,      \* radio state
    idle_since, \* when the running inactivity timer was started
    last_reset  \* when tracking last started over

tailvars == <<now, state, idle_since, last_reset>>

TailInit ==
    /\ now \in Nat
    /\ state = "IDLE"
    /\ idle_since = now
    /\ last_reset = now

\* Time passes.
Elapse ==
    /\ now' \in Nat
    /\ now' > now
    /\ UNCHANGED <<state, idle_since, last_reset>>

\* Traffic was noticed: the radio is in FACH or DCH, never lower than it was.
Activity ==
    /\ state' \in {"FACH", "DCH"}
    /\ state = "DCH" => state' = "DCH"
    /\ idle_since' = now
    /\ UNCHANGED <<now, last_reset>>

\* The DCH timer expired: one step down, and the FACH timer starts.
LeaveDCH ==
    /\ state = "DCH"
    /\ now - idle_since >= MOBILE_DCH_INACTIVITY_TIMER
    /\ state' = "FACH"
    /\ idle_since' = now
    /\ UNCHANGED <<now, last_reset>>

\* The FACH timer expired: the tail is over.
LeaveFACH ==
    /\ state = "FACH"
    /\ now - idle_since >= MOBILE_FACH_INACTIVITY_TIMER
    /\ state' = "IDLE"
    /\ UNCHANGED <<now, idle_since, last_reset>>

\* The statistics are reset: tracking starts over.
Restart ==
    /\ state' = "IDLE"
    /\ idle_since' = now
    /\ last_reset' = now
    /\ now' = now

TailNext == Elapse \/ Activity \/ LeaveDCH \/ LeaveFACH \/ Restart

TailSpec == TailInit /\ [][TailNext]_tailvars
=============================================================================
