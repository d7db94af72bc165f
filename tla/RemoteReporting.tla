--------------------------- MODULE RemoteReporting ---------------------------
(***************************************************************************)
(* A handset and a server: the handset's tracker of its cellular radio,    *)
(* the activity callback whose reports the application carries over a      *)
(* network, and the server's remote power model (RemotePowerModel).        *)
(*                                                                         *)
(* The handset is RadioTail, the abstraction that MobileTracker is proved  *)
(* to implement.  Its activities are samples, a second apart or more; its  *)
(* timers are compared in every poll, so that one expires at most a poll   *)
(* late.  The network belongs to the application: reports may be lost or   *)
(* arrive out of order, but none arrives later than MaxDelay.  Both clocks *)
(* run at one pace; the server never reads the handset's.                  *)
(***************************************************************************)
EXTENDS RemotePowerModel, FiniteSets

CONSTANTS
    FOLLOWS_HEADER,     \* the application passes on only what libpowertutor.h allows
    ONLY_ACTIVITIES,    \* it passes on only reports of a queue
    MaxPollGap,         \* environment: longest time between two polls
    MaxDelay,           \* environment: longest time a report takes
    PacketRates,        \* environment: the wifi packet rates a handset reports
    ResetTimes,         \* environment: instants at which the handset may reset
    MaxInFlight,        \* bound of the model: reports under way at a time
    MaxTime             \* bound of the model: the clock stops here

ASSUME ReportingAssumption ==
    /\ {FOLLOWS_HEADER, ONLY_ACTIVITIES} \subseteq BOOLEAN
    /\ MaxPollGap \in Nat \ {0}
    /\ {MaxDelay, MaxInFlight, MaxTime} \cup PacketRates \cup ResetTimes \subseteq Nat

VARIABLES
    mobile_state,           \* the handset's radio
    last_mobile_activity,
    last_mobile_sample_time,
    last_reset,             \* of the handset
    network,                \* reports under way: the time they were sent at, and
                            \* (history) whether they tell of a new sample
    last_server_poll,       \* history: when the server last aged its model
    unheard,                \* history: the last activity's report is not yet handled
    last_report,            \* history: when a report of a queue was last sent
    remote_since            \* history: when remote_state last changed its state

handset == <<mobile_state, last_mobile_activity, last_mobile_sample_time, last_reset>>
reportingvars == <<now, remotevars, handset, network, last_server_poll, unheard,
                   last_report, remote_since>>

HandsetTail == INSTANCE RadioTail WITH state <- mobile_state,
                                       idle_since <- last_mobile_activity

ReportingInit ==
    /\ now = StartTime
    /\ RemoteInit
    /\ mobile_state = "IDLE"
    /\ last_mobile_activity = now
    /\ last_mobile_sample_time = now
    /\ last_reset = now
    /\ network = {}
    /\ last_server_poll = now
    /\ unheard = FALSE
    /\ last_report = now
    /\ remote_since = now
-----------------------------------------------------------------------------
\* Overdue: the timer of the handset's radio has expired this long ago.
Overdue(s, since, time) == s # "IDLE" /\ now - since >= InactivityTimer(s) + time

Tick ==
    /\ now < MaxTime
    /\ now - last_server_poll < MaxPollGap
    /\ ~Overdue(mobile_state, last_mobile_activity, MaxPollGap)
    /\ \A r \in network : now - r.sent < MaxDelay
    /\ now' = now + 1
    /\ UNCHANGED <<remotevars, handset, network, last_server_poll, unheard, last_report,
                   remote_since>>

\* The callback of update_energy_stats is handed the state, the queues and the
\* packet rate; the application puts them on the network.
Send(sampled, state, queue, rate) ==
    /\ Cardinality(network) < MaxInFlight
    /\ network' = network \cup
          {[sent |-> now, sampled |-> sampled,
            state |-> [mobile_state |-> state,
                       mobile_queue_len |-> [NoQueue EXCEPT !["UP"] = queue],
                       wifi_packet_rate |-> rate]]}
    /\ last_report' = IF queue > 0 THEN now ELSE last_report

\* A sample finds traffic: the radio is promoted and the report tells of a queue.
HandsetActivity ==
    /\ HasElapsedSecond(now - last_mobile_sample_time)
    /\ HandsetTail!Activity
    /\ last_mobile_sample_time' = now
    /\ \E rate \in PacketRates : Send(TRUE, mobile_state', 1, rate)
    /\ unheard' = TRUE
    /\ UNCHANGED <<remotevars, last_server_poll, remote_since>>

HandsetTimeout ==
    /\ HandsetTail!LeaveDCH \/ HandsetTail!LeaveFACH
    /\ UNCHANGED <<last_mobile_sample_time, remotevars, network, last_server_poll,
                   unheard, last_report, remote_since>>

\* reset_stats on the handset, of which the server is told nothing.
HandsetReset ==
    /\ now \in ResetTimes
    /\ HandsetTail!Restart
    /\ last_mobile_sample_time' = now
    /\ unheard' = FALSE
    /\ UNCHANGED <<remotevars, network, last_server_poll, last_report, remote_since>>

\* A high wifi packet rate fires the callback too; the queue is empty, or holds
\* what no sample has seen yet.
HandsetWifiReport ==
    /\ \E queue \in {0, 1}, rate \in PacketRates : Send(FALSE, mobile_state, queue, rate)
    /\ UNCHANGED <<now, remotevars, handset, last_server_poll, unheard, remote_since>>

Handled(r) == r.sampled /\ r.sent = last_mobile_sample_time

\* The server's application receives a report, and passes it on or not.
PassesOn(report) ==
    /\ FOLLOWS_HEADER => MayReport(report)
    /\ ONLY_ACTIVITIES => ReportsActivity(report)
Deliver ==
    \E r \in network :
        /\ network' = network \ {r}
        /\ IF PassesOn(r.state) THEN report_remote_mobile_activity(r.state)
                                ELSE UNCHANGED remotevars
        /\ unheard' = (unheard /\ ~Handled(r))
        /\ remote_since' = IF remote_state'.mobile_state = remote_state.mobile_state
                           THEN remote_since ELSE now
        /\ UNCHANGED <<now, handset, last_server_poll, last_report>>

Lose ==
    /\ \E r \in network : network' = network \ {r}
    /\ UNCHANGED <<now, remotevars, handset, last_server_poll, unheard, last_report,
                   remote_since>>

\* The server's update thread, every 100 ms.
ServerPoll ==
    /\ update_remote_power_model
    /\ last_server_poll' = now
    /\ remote_since' = IF remote_state'.mobile_state = remote_state.mobile_state
                       THEN remote_since ELSE now
    /\ UNCHANGED <<now, handset, network, unheard, last_report>>

Horizon == now = MaxTime /\ UNCHANGED reportingvars

ReportingNext ==
    \/ Tick \/ Horizon
    \/ HandsetActivity \/ HandsetTimeout \/ HandsetReset \/ HandsetWifiReport
    \/ Deliver \/ Lose
    \/ ServerPoll

ReportingSpec == ReportingInit /\ [][ReportingNext]_reportingvars
-----------------------------------------------------------------------------
(* Properties.                                                             *)

RemoteTypeOK ==
    /\ {now, remote_last_mobile_activity, last_mobile_activity,
        last_mobile_sample_time, last_reset, last_server_poll, last_report,
        remote_since} \subseteq Nat
    /\ remote_state \in remote_power_state
    /\ mobile_state \in MobileState
    /\ \A r \in network : r.sent \in Nat /\ r.state \in remote_power_state
    /\ unheard \in BOOLEAN

\* Fed with the reports the header allows and that tell of a queue, the server's model
\* is a tracker of the radio like the handset's own: the same abstract specification,
\* although its timers start when reports arrive.
ServerTail == INSTANCE RadioTail WITH
    state <- remote_state.mobile_state,
    idle_since <- IF remote_last_mobile_activity = 0 THEN StartTime
                                                     ELSE remote_last_mobile_activity,
    last_reset <- StartTime
ImplementsServerTail == ServerTail!TailSpec

\* The server does not take the radio for lower than it is, unless the report of
\* the last activity has not arrived (or never will), or the handset's own timer is
\* within a poll of expiring: what is saved by a transfer that finds the radio high
\* already is not lost to the delays of the network.
ServerCoversHandset ==
    Rank(remote_state.mobile_state) < Rank(mobile_state) =>
        \/ unheard
        \/ Overdue(mobile_state, last_mobile_activity, -MaxPollGap)

\* A server takes the radio for high no longer than a tail, the delay of the last
\* report and two polls after the handset last reported traffic.
ServerFallsIdle ==
    now - last_report > MaxDelay + MOBILE_DCH_INACTIVITY_TIMER
                        + MOBILE_FACH_INACTIVITY_TIMER + 2 * MaxPollGap
    => remote_state.mobile_state = "IDLE"

\* Queues and packet rates older than the timeout, the delay and a poll are gone.
NothingStaleIsKept ==
    remote_state.mobile_queue_len # NoQueue \/ remote_state.wifi_packet_rate > 0 =>
        now - remote_last_mobile_activity
            < REMOTE_POWER_STATE_INVALID_TIMEOUT + MaxPollGap

\* The comment on the fall from DCH: "so that we wait for the full FACH timeout
\* before going to IDLE".
ServerFullTail ==
    [][ServerPoll /\ remote_state.mobile_state = "FACH"
                  /\ remote_state'.mobile_state = "IDLE"
       => now - remote_since >= MOBILE_FACH_INACTIVITY_TIMER]_reportingvars
=============================================================================
