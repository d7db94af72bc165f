-------------------------- MODULE RemotePowerModel --------------------------
(***************************************************************************)
(* The model of a handset's radios that a server keeps (libpowertutor.cpp  *)
(* built without ANDROID): remote_state, which reports overwrite and the   *)
(* server's own polls age, under remote_power_state_lock.  Both operations *)
(* hold the lock from beginning to end, so each is one step.               *)
(***************************************************************************)
EXTENDS PowerModel

CONSTANTS
    REMOTE_POWER_STATE_INVALID_TIMEOUT,     \* 1.5 seconds, in ticks
    StartTime                               \* the clock when the library is loaded

ASSUME RemoteAssumption ==
    /\ REMOTE_POWER_STATE_INVALID_TIMEOUT \in Nat \ {0}
    /\ StartTime \in Nat \ {0}

VARIABLES
    now,
    remote_state,                   \* struct remote_power_state
    remote_last_mobile_activity     \* 0 until the first report of an activity

remotevars == <<remote_state, remote_last_mobile_activity>>

remote_power_state ==
    [mobile_state : MobileState, mobile_queue_len : [Direction -> Nat],
     wifi_packet_rate : Nat]

NoQueue == [d \in Direction |-> 0]

RemoteInit ==
    /\ remote_state = [mobile_state |-> "IDLE", mobile_queue_len |-> NoQueue,
                       wifi_packet_rate |-> 0]
    /\ remote_last_mobile_activity = 0

idle_time == now - remote_last_mobile_activity

\* A definition named for a part of a rule (InDCH, Kept, Unknown, ...) is a
\* plausible slip of the definition that follows it, used only to see that the
\* properties notice it.

\* The state a poll leaves, and the stamp: the fall from DCH is an activity.
RemoteTimedOutInDCH ==
    /\ remote_state.mobile_state = "DCH"
    /\ idle_time >= InactivityTimer(remote_state.mobile_state)
RemoteTimedOut ==
    /\ remote_state.mobile_state # "IDLE"
    /\ idle_time >= InactivityTimer(remote_state.mobile_state)

AgedState ==
    IF RemoteTimedOut THEN Demoted(remote_state.mobile_state)
                      ELSE remote_state.mobile_state

AgedActivityKept == remote_last_mobile_activity
AgedActivity ==
    IF RemoteTimedOut /\ remote_state.mobile_state = "DCH"
    THEN now ELSE remote_last_mobile_activity

\* "If we don't hear an update for this long, we assume that nothing has
\* happened; the queues have emptied and the packet rate has dropped off."
NothingHeardInIdle ==
    /\ remote_state.mobile_state = "IDLE"
    /\ idle_time >= REMOTE_POWER_STATE_INVALID_TIMEOUT
NothingHeard == idle_time >= REMOTE_POWER_STATE_INVALID_TIMEOUT

AgedRateUnknown == IF NothingHeard THEN -1 ELSE remote_state.wifi_packet_rate
AgedRate == IF NothingHeard THEN 0 ELSE remote_state.wifi_packet_rate
AgedQueue == IF NothingHeard THEN NoQueue ELSE remote_state.mobile_queue_len

update_remote_power_model ==
    /\ remote_state' =
          [mobile_state |-> AgedState, mobile_queue_len |-> AgedQueue,
           wifi_packet_rate |-> AgedRate]
    /\ remote_last_mobile_activity' = AgedActivity

\* A report is taken over whole.  It counts as an activity if there are bytes in
\* its queues; otherwise "this is just a wifi packet rate update".
ReportsActivity(report) ==
    report.mobile_queue_len["DOWN"] + report.mobile_queue_len["UP"] > 0

ReportWithoutStamp(report) ==
    /\ remote_state' = report
    /\ remote_last_mobile_activity' =
          IF ReportsActivity(report) /\ remote_state.mobile_state # report.mobile_state
          THEN now ELSE remote_last_mobile_activity
report_remote_mobile_activity(report) ==
    /\ remote_state' = report
    /\ remote_last_mobile_activity' =
          IF ReportsActivity(report) THEN now ELSE remote_last_mobile_activity

\* "This function should only be used to move the model to a higher state (or
\* maintain its state and report another activity in that state)."
Rank(s) == CASE s = "IDLE" -> 0 [] s = "FACH" -> 1 [] s = "DCH" -> 2

MayReport(report) ==
    \/ Rank(report.mobile_state) > Rank(remote_state.mobile_state)
    \/ /\ report.mobile_state = remote_state.mobile_state
       /\ report.mobile_state # "IDLE"      \* there is no activity in IDLE
       /\ ReportsActivity(report)
=============================================================================
