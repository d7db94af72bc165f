----------------------- MODULE RemoteReportingProofs -----------------------
(***************************************************************************)
(* Theorems about RemoteReporting, for every power model, poll interval,   *)
(* delay of the network, packet rate and timeout that the assumptions      *)
(* admit.                                                                  *)
(***************************************************************************)
EXTENDS RemoteReporting, TLAPS

\* No stamp lies in the future; the server polls at least every MaxPollGap, the
\* handset lets no timer expire by more, and no report is older than MaxDelay.
Clocks ==
    /\ StartTime <= now
    /\ {remote_last_mobile_activity, last_mobile_activity, last_mobile_sample_time,
        last_server_poll, last_report, remote_since} \subseteq 0..now
    /\ now <= last_server_poll + MaxPollGap
    /\ mobile_state # "IDLE" =>
          now <= last_mobile_activity + InactivityTimer(mobile_state) + MaxPollGap
    /\ \A r \in network : r.sent <= now /\ now <= r.sent + MaxDelay

\* What the reports under way say: a report of traffic was sent no later than the
\* last of them, and one of a sample, no later than the last sample; the report of
\* the last activity, until it is handled, says a state at least as high as the
\* handset's.
Reports ==
    \A r \in network :
        /\ r.sampled \in BOOLEAN
        /\ ReportsActivity(r.state) => r.sent <= last_report
        /\ r.sampled =>
              /\ ReportsActivity(r.state)
              /\ r.state.mobile_state # "IDLE"
              /\ r.sent <= last_mobile_sample_time
        /\ unheard /\ Handled(r) => Rank(r.state.mobile_state) >= Rank(mobile_state)

ReportingInv == RemoteTypeOK /\ Clocks /\ Reports

\* What the server holds is no older than its timers allow: every poll since the
\* last activity found the timer of the state running, and the queues fresh.
Aging ==
    /\ remote_state.mobile_state # "IDLE" =>
          /\ remote_last_mobile_activity > 0
          /\ last_server_poll < remote_last_mobile_activity
                                + InactivityTimer(remote_state.mobile_state)
    /\ remote_state.mobile_state = "DCH" =>
          remote_last_mobile_activity <= last_report + MaxDelay
    /\ remote_state.mobile_state = "FACH" =>
          remote_last_mobile_activity <= last_report + MaxDelay
                + MOBILE_DCH_INACTIVITY_TIMER + MaxPollGap
    /\ remote_state.mobile_queue_len # NoQueue \/ remote_state.wifi_packet_rate > 0 =>
          last_server_poll < remote_last_mobile_activity
                             + REMOTE_POWER_STATE_INVALID_TIMEOUT

\* Once the report of the last activity is handled, the server has come down from
\* the handset's state, if at all, only after a timer that it started no earlier
\* than the handset its own, but for the poll by which the handset may be late.
Covered ==
    ~unheard =>
        /\ mobile_state = "DCH" =>
              \/ /\ remote_state.mobile_state = "DCH"
                 /\ remote_last_mobile_activity >= last_mobile_activity
              \/ /\ remote_state.mobile_state = "FACH"
                 /\ remote_last_mobile_activity >=
                       last_mobile_activity + MOBILE_DCH_INACTIVITY_TIMER
              \/ /\ remote_state.mobile_state = "IDLE"
                 /\ now >= last_mobile_activity + MOBILE_DCH_INACTIVITY_TIMER
                           + MOBILE_FACH_INACTIVITY_TIMER
        /\ mobile_state = "FACH" =>
              \/ remote_state.mobile_state = "DCH"
              \/ /\ remote_state.mobile_state = "FACH"
                 /\ remote_last_mobile_activity + MaxPollGap >= last_mobile_activity
              \/ /\ remote_state.mobile_state = "IDLE"
                 /\ now + MaxPollGap >=
                       last_mobile_activity + MOBILE_FACH_INACTIVITY_TIMER

ServerInv == ReportingInv /\ Aging /\ Covered
-----------------------------------------------------------------------------
\* The constants the proofs compute with.
LEMMA ConstantTypes ==
    /\ SECOND \in Nat /\ SECOND > 0
    /\ MOBILE_DCH_INACTIVITY_TIMER \in Nat /\ MOBILE_DCH_INACTIVITY_TIMER > 0
    /\ MOBILE_FACH_INACTIVITY_TIMER \in Nat /\ MOBILE_FACH_INACTIVITY_TIMER > 0
    /\ REMOTE_POWER_STATE_INVALID_TIMEOUT \in Nat
    /\ REMOTE_POWER_STATE_INVALID_TIMEOUT > 0
    /\ StartTime \in Nat /\ StartTime > 0
    /\ MaxPollGap \in Nat /\ MaxDelay \in Nat
    /\ PacketRates \subseteq Nat
  BY SecondAssumption, TimerAssumption, RemoteAssumption, ReportingAssumption

\* The parts of a report.
LEMMA ReportTypes ==
    ASSUME NEW s \in remote_power_state
    PROVE  /\ s.mobile_state \in MobileState
           /\ s.mobile_queue_len \in [Direction -> Nat]
           /\ s.mobile_queue_len["DOWN"] \in Nat /\ s.mobile_queue_len["UP"] \in Nat
           /\ s.wifi_packet_rate \in Nat
  BY DEF remote_power_state, Direction

\* A state is low, higher or highest.
LEMMA Ranks ==
    /\ Rank("IDLE") = 0 /\ Rank("FACH") = 1 /\ Rank("DCH") = 2
    /\ \A s \in MobileState : Rank(s) \in 0..2
    /\ InactivityTimer("DCH") = MOBILE_DCH_INACTIVITY_TIMER
    /\ InactivityTimer("FACH") = MOBILE_FACH_INACTIVITY_TIMER
    /\ Demoted("DCH") = "FACH" /\ Demoted("FACH") = "IDLE"
  BY DEF Rank, MobileState, InactivityTimer, Demoted

\* What sending puts on the network.
LEMMA SendReport ==
    ASSUME NEW sampled \in BOOLEAN, NEW state \in MobileState, NEW queue \in {0, 1},
           NEW rate \in PacketRates, Send(sampled, state, queue, rate)
    PROVE  \E r : /\ network' = network \cup {r}
                  /\ r.sent = now /\ r.sampled = sampled
                  /\ r.state \in remote_power_state
                  /\ r.state.mobile_state = state
                  /\ ReportsActivity(r.state) <=> queue = 1
                  /\ last_report' = IF queue = 1 THEN now ELSE last_report
<1> DEFINE s == [mobile_state |-> state,
                 mobile_queue_len |-> [NoQueue EXCEPT !["UP"] = queue],
                 wifi_packet_rate |-> rate]
           r == [sent |-> now, sampled |-> sampled, state |-> s]
<1>1. network' = network \cup {r}
  BY DEF Send
<1>2. last_report' = IF queue = 1 THEN now ELSE last_report
  BY DEF Send
<1>3. s.mobile_queue_len \in [Direction -> Nat]
  BY DEF NoQueue, Direction
<1>4. s \in remote_power_state
  BY <1>3, ConstantTypes DEF remote_power_state
<1>5. ReportsActivity(s) <=> queue = 1
  BY DEF ReportsActivity, NoQueue, Direction
<1>6. r.sent = now /\ r.sampled = sampled /\ r.state = s /\ s.mobile_state = state
  OBVIOUS
<1> HIDE DEF s, r
<1> QED
  BY <1>1, <1>2, <1>4, <1>5, <1>6

\* What a poll of the server leaves: the state, or the next one down.
LEMMA PollStates ==
    ASSUME RemoteTypeOK, update_remote_power_model
    PROVE  /\ remote_state' \in remote_power_state
           /\ remote_last_mobile_activity' \in {remote_last_mobile_activity, now}
           /\ remote_state'.mobile_state = AgedState
           /\ remote_state'.mobile_queue_len = AgedQueue
           /\ remote_state'.wifi_packet_rate = AgedRate
<1>1. /\ AgedState \in MobileState /\ AgedRate \in Nat /\ AgedQueue \in [Direction -> Nat]
  BY ReportTypes DEF RemoteTypeOK, AgedState, AgedRate, AgedQueue, NoQueue, MobileState,
     Demoted
<1> QED
  BY <1>1 DEF update_remote_power_model, AgedActivity, remote_power_state
-----------------------------------------------------------------------------
(* Types, clocks and reports, whatever the application passes on.          *)

\* At first nothing is under way.
LEMMA ReportingInvInit == ReportingInit => ReportingInv
<1> SUFFICES ASSUME ReportingInit PROVE ReportingInv
  OBVIOUS
<1>1. remote_state \in remote_power_state
  BY DEF ReportingInit, RemoteInit, remote_power_state, NoQueue, MobileState
<1>2. /\ now = StartTime /\ remote_last_mobile_activity = 0 /\ mobile_state = "IDLE"
      /\ last_mobile_activity = now /\ last_mobile_sample_time = now /\ last_reset = now
      /\ network = {} /\ last_server_poll = now /\ unheard = FALSE
      /\ last_report = now /\ remote_since = now
  BY DEF ReportingInit, RemoteInit
<1>3. RemoteTypeOK
  <2>1. mobile_state \in MobileState /\ unheard \in BOOLEAN
    BY <1>2 DEF MobileState
  <2> QED
    BY <1>1, <1>2, <2>1, ConstantTypes DEF RemoteTypeOK
<1>4. Clocks /\ Reports
  BY <1>2, ConstantTypes DEF Clocks, Reports
<1> QED
  BY <1>3, <1>4 DEF ReportingInv

\* Time passes only while nothing is late.
LEMMA ReportingInvTick == ReportingInv /\ Tick => ReportingInv'
<1> SUFFICES ASSUME ReportingInv, Tick PROVE ReportingInv'
  OBVIOUS
<1> USE ConstantTypes
<1>0. UNCHANGED <<remote_state, remote_last_mobile_activity, mobile_state,
                 last_mobile_activity, last_mobile_sample_time, last_reset, network,
                 last_server_poll, unheard, last_report, remote_since>>
      /\ now' = now + 1
  BY DEF Tick, handset, remotevars
<1>1. RemoteTypeOK'
  BY <1>0 DEF ReportingInv, RemoteTypeOK
<1>2. Clocks'
  BY <1>0 DEF ReportingInv, RemoteTypeOK, Clocks, Tick, Overdue, InactivityTimer, MobileState
<1>3. Reports'
  BY <1>0 DEF ReportingInv, Reports, Handled
<1> QED
  BY <1>1, <1>2, <1>3 DEF ReportingInv

\* An activity is reported with the state it leads to.
LEMMA ReportingInvActivity == ReportingInv /\ HandsetActivity => ReportingInv'
<1> SUFFICES ASSUME ReportingInv, HandsetActivity PROVE ReportingInv'
  OBVIOUS
<1> USE ConstantTypes
<1>0. /\ now' = now /\ mobile_state' \in {"FACH", "DCH"} /\ last_mobile_activity' = now
      /\ last_mobile_sample_time' = now /\ unheard' = TRUE
      /\ UNCHANGED <<remote_state, remote_last_mobile_activity, last_reset,
                     last_server_poll, remote_since>>
      /\ last_mobile_sample_time < now
  BY DEF HandsetActivity, HandsetTail!Activity, remotevars, HasElapsedSecond, ReportingInv,
     RemoteTypeOK
<1>1. PICK r : /\ network' = network \cup {r}
               /\ r.sent = now /\ r.sampled = TRUE
               /\ r.state \in remote_power_state
               /\ r.state.mobile_state = mobile_state'
               /\ ReportsActivity(r.state)
               /\ last_report' = now
  <2>1. PICK rate \in PacketRates : Send(TRUE, mobile_state', 1, rate)
    BY DEF HandsetActivity
  <2>2. mobile_state' \in MobileState
    BY <1>0 DEF MobileState
  <2> QED
    BY <2>1, <2>2, SendReport
<1>2. RemoteTypeOK'
  BY <1>0, <1>1 DEF ReportingInv, RemoteTypeOK, MobileState
<1>3. Clocks'
  BY <1>0, <1>1 DEF ReportingInv, RemoteTypeOK, Clocks, InactivityTimer
<1>4. Reports'
  <2> SUFFICES ASSUME NEW q \in network'
               PROVE  /\ q.sampled \in BOOLEAN
                      /\ ReportsActivity(q.state) => q.sent <= last_report'
                      /\ q.sampled => /\ ReportsActivity(q.state)
                                      /\ q.state.mobile_state # "IDLE"
                                      /\ q.sent <= last_mobile_sample_time'
                      /\ Handled(q)' => Rank(q.state.mobile_state) >= Rank(mobile_state')
    BY DEF Reports
  <2>1. CASE q = r
    <3>1. now \in Nat /\ Rank(mobile_state') \in 0..2
      BY <1>0, Ranks DEF ReportingInv, RemoteTypeOK, MobileState
    <3>2. /\ q.sent <= last_report' /\ q.sent <= last_mobile_sample_time'
          /\ Rank(q.state.mobile_state) >= Rank(mobile_state')
          /\ q.state.mobile_state # "IDLE"
      BY <1>0, <1>1, <2>1, <3>1
    <3> QED
      BY <1>1, <2>1, <3>2
  <2>2. CASE q \in network
    <3>1. /\ q.sampled \in BOOLEAN
          /\ ReportsActivity(q.state) => q.sent <= last_report
          /\ q.sampled => /\ ReportsActivity(q.state)
                          /\ q.state.mobile_state # "IDLE"
                          /\ q.sent <= last_mobile_sample_time
      BY <2>2 DEF ReportingInv, Reports
    <3>2. q.sent \in Nat /\ last_mobile_sample_time \in Nat /\ now \in Nat
          /\ last_report \in Nat /\ last_report <= now
      BY <2>2 DEF ReportingInv, RemoteTypeOK, Clocks
    <3> QED
      BY <1>0, <1>1, <3>1, <3>2 DEF Handled
  <2> QED
    BY <1>1, <2>1, <2>2
<1> QED
  BY <1>2, <1>3, <1>4 DEF ReportingInv

\* A timer that expires lowers the handset's state.
LEMMA ReportingInvTimeout == ReportingInv /\ HandsetTimeout => ReportingInv'
<1> SUFFICES ASSUME ReportingInv, HandsetTimeout PROVE ReportingInv'
  OBVIOUS
<1> USE ConstantTypes
<1>0. /\ UNCHANGED <<now, remote_state, remote_last_mobile_activity, last_reset, network,
                     last_mobile_sample_time, last_server_poll, unheard, last_report,
                     remote_since>>
      /\ \/ /\ mobile_state = "DCH" /\ mobile_state' = "FACH"
            /\ last_mobile_activity' = now
         \/ /\ mobile_state = "FACH" /\ mobile_state' = "IDLE"
            /\ last_mobile_activity' = last_mobile_activity
  BY DEF HandsetTimeout, HandsetTail!LeaveDCH, HandsetTail!LeaveFACH, remotevars
<1>1. RemoteTypeOK'
  BY <1>0 DEF ReportingInv, RemoteTypeOK, MobileState
<1>2. Clocks'
  BY <1>0, Ranks DEF ReportingInv, RemoteTypeOK, Clocks
<1>3. Reports'
  BY <1>0, Ranks, ReportTypes DEF ReportingInv, RemoteTypeOK, Reports, Handled
<1> QED
  BY <1>1, <1>2, <1>3 DEF ReportingInv

\* A reset of the handset forgets the activity that was reported.
LEMMA ReportingInvReset == ReportingInv /\ HandsetReset => ReportingInv'
<1> SUFFICES ASSUME ReportingInv, HandsetReset PROVE ReportingInv'
  OBVIOUS
<1>0. /\ UNCHANGED <<now, remote_state, remote_last_mobile_activity, network,
                     last_server_poll, last_report, remote_since>>
      /\ mobile_state' = "IDLE" /\ last_mobile_activity' = now /\ last_reset' = now
      /\ last_mobile_sample_time' = now /\ unheard' = FALSE
  BY DEF HandsetReset, HandsetTail!Restart, remotevars
<1>1. RemoteTypeOK'
  BY <1>0 DEF ReportingInv, RemoteTypeOK, MobileState
<1>2. Clocks'
  BY <1>0 DEF ReportingInv, RemoteTypeOK, Clocks
<1>3. Reports'
  BY <1>0, <1>2 DEF ReportingInv, RemoteTypeOK, Clocks, Reports
<1> QED
  BY <1>1, <1>2, <1>3 DEF ReportingInv

\* A wifi report tells of no sample.
LEMMA ReportingInvWifiReport == ReportingInv /\ HandsetWifiReport => ReportingInv'
<1> SUFFICES ASSUME ReportingInv, HandsetWifiReport PROVE ReportingInv'
  OBVIOUS
<1> USE ConstantTypes
<1>0. UNCHANGED <<now, remote_state, remote_last_mobile_activity, mobile_state,
                 last_mobile_activity, last_mobile_sample_time, last_reset,
                 last_server_poll, unheard, remote_since>>
  BY DEF HandsetWifiReport, remotevars, handset
<1>1. PICK queue \in {0, 1}, rate \in PacketRates : Send(FALSE, mobile_state, queue, rate)
  BY DEF HandsetWifiReport
<1>2. PICK r : /\ network' = network \cup {r}
               /\ r.sent = now /\ r.sampled = FALSE
               /\ r.state \in remote_power_state
               /\ r.state.mobile_state = mobile_state
               /\ ReportsActivity(r.state) <=> queue = 1
               /\ last_report' = IF queue = 1 THEN now ELSE last_report
  <2>1. mobile_state \in MobileState /\ FALSE \in BOOLEAN
    BY DEF ReportingInv, RemoteTypeOK
  <2> HIDE ConstantTypes
  <2> QED
    BY <1>1, <2>1, SendReport, ZenonT(60)
<1>3. RemoteTypeOK' /\ Clocks'
  BY <1>0, <1>2 DEF ReportingInv, RemoteTypeOK, Clocks
<1>4. last_report \in Nat /\ now \in Nat /\ last_report <= now /\ last_report' <= now
  BY <1>2 DEF ReportingInv, RemoteTypeOK, Clocks
<1>5. Reports'
  <2> SUFFICES ASSUME NEW q \in network'
               PROVE  /\ q.sampled \in BOOLEAN
                      /\ ReportsActivity(q.state) => q.sent <= last_report'
                      /\ q.sampled => /\ ReportsActivity(q.state)
                                      /\ q.state.mobile_state # "IDLE"
                                      /\ q.sent <= last_mobile_sample_time'
                      /\ unheard' /\ Handled(q)' =>
                            Rank(q.state.mobile_state) >= Rank(mobile_state')
    BY DEF Reports
  <2>1. CASE q = r
    <3>1. ReportsActivity(r.state) => r.sent <= last_report'
      BY <1>2, <1>4
    <3> QED
      BY <1>2, <2>1, <3>1 DEF Handled
  <2>2. CASE q \in network
    <3>1. ReportsActivity(q.state) => q.sent <= last_report'
      BY <1>2, <1>4, <2>2 DEF ReportingInv, RemoteTypeOK, Clocks, Reports
    <3> QED
      BY <1>0, <2>2, <3>1 DEF ReportingInv, Reports, Handled
  <2> QED
    BY <1>2, <2>1, <2>2
<1> QED
  BY <1>3, <1>5 DEF ReportingInv

\* Delivery and loss take reports off the network.
LEMMA ReportingInvNetwork == ReportingInv /\ (Deliver \/ Lose) => ReportingInv'
<1> SUFFICES ASSUME ReportingInv, Deliver \/ Lose PROVE ReportingInv'
  OBVIOUS
<1>1. CASE Lose
  BY <1>1 DEF Lose, ReportingInv, RemoteTypeOK, Clocks, Reports, Handled, remotevars, handset
<1>2. CASE Deliver
  <2>1. PICK r \in network :
           /\ network' = network \ {r}
           /\ \/ UNCHANGED remotevars
              \/ report_remote_mobile_activity(r.state)
           /\ unheard' = (unheard /\ ~Handled(r))
           /\ remote_since' \in {remote_since, now}
           /\ UNCHANGED <<now, handset, last_server_poll, last_report>>
    BY <1>2 DEF Deliver
  <2>2. /\ remote_state' \in {remote_state, r.state}
        /\ remote_last_mobile_activity' \in {remote_last_mobile_activity, now}
    BY <2>1 DEF remotevars, report_remote_mobile_activity
  <2>3. unheard' \in BOOLEAN /\ (unheard' => unheard)
    BY <2>1 DEF ReportingInv, RemoteTypeOK
  <2>4. RemoteTypeOK' /\ Clocks'
    BY <2>1, <2>2, <2>3 DEF ReportingInv, RemoteTypeOK, Clocks, handset
  <2>5. Reports'
    BY <2>1, <2>3 DEF ReportingInv, RemoteTypeOK, Clocks, Reports, Handled, handset
  <2> QED
    BY <2>4, <2>5 DEF ReportingInv
<1> QED
  BY <1>1, <1>2

\* A poll of the server touches neither the handset nor the network.
LEMMA ReportingInvServerPoll == ReportingInv /\ ServerPoll => ReportingInv'
<1> SUFFICES ASSUME ReportingInv, ServerPoll PROVE ReportingInv'
  OBVIOUS
<1> USE ConstantTypes
<1>1. /\ UNCHANGED <<now, mobile_state, last_mobile_activity, last_mobile_sample_time,
                     last_reset, network, unheard, last_report>>
      /\ last_server_poll' = now /\ remote_since' \in {remote_since, now}
  BY DEF ServerPoll, handset
<1>2. /\ remote_state' \in remote_power_state
      /\ remote_last_mobile_activity' \in {remote_last_mobile_activity, now}
  BY PollStates DEF ReportingInv, ServerPoll
<1> QED
  BY <1>1, <1>2 DEF ReportingInv, RemoteTypeOK, Clocks, Reports, Handled

LEMMA ReportingInvNext == ReportingInv /\ [ReportingNext]_reportingvars => ReportingInv'
<1> SUFFICES ASSUME ReportingInv, UNCHANGED reportingvars PROVE ReportingInv'
  BY ReportingInvTick, ReportingInvActivity, ReportingInvTimeout, ReportingInvReset,
     ReportingInvWifiReport, ReportingInvNetwork, ReportingInvServerPoll
     DEF ReportingNext, Horizon
<1> QED
  BY DEF ReportingInv, RemoteTypeOK, Clocks, Reports, Handled, reportingvars, remotevars,
     handset

LEMMA ReportingInvHolds == ReportingSpec => []ReportingInv
  BY ReportingInvInit, ReportingInvNext, PTL DEF ReportingSpec

\* The server's model, the handset and the reports under way keep their types
\* whatever the application passes on, in whatever order: what arrives or is aged is
\* always a radio state, two queue lengths and a packet rate, never a negative one.
THEOREM RemoteTypeCorrect == ReportingSpec => []RemoteTypeOK
<1>1. ReportingInv => RemoteTypeOK
  BY DEF ReportingInv
<1> QED
  BY <1>1, ReportingInvHolds, PTL
-----------------------------------------------------------------------------
(* The server's model, if the application passes on what the header allows. *)

\* What a poll does to each state.
LEMMA PollCases ==
    ASSUME RemoteTypeOK, update_remote_power_model
    PROVE  /\ \/ /\ remote_state.mobile_state = "IDLE"
                 /\ remote_state'.mobile_state = "IDLE"
                 /\ remote_last_mobile_activity' = remote_last_mobile_activity
              \/ /\ remote_state.mobile_state \in {"FACH", "DCH"}
                 /\ now - remote_last_mobile_activity
                       < InactivityTimer(remote_state.mobile_state)
                 /\ remote_state'.mobile_state = remote_state.mobile_state
                 /\ remote_last_mobile_activity' = remote_last_mobile_activity
              \/ /\ remote_state.mobile_state = "DCH"
                 /\ now - remote_last_mobile_activity >= MOBILE_DCH_INACTIVITY_TIMER
                 /\ remote_state'.mobile_state = "FACH"
                 /\ remote_last_mobile_activity' = now
              \/ /\ remote_state.mobile_state = "FACH"
                 /\ now - remote_last_mobile_activity >= MOBILE_FACH_INACTIVITY_TIMER
                 /\ remote_state'.mobile_state = "IDLE"
                 /\ remote_last_mobile_activity' = remote_last_mobile_activity
           /\ \/ /\ remote_state'.mobile_queue_len = NoQueue
                 /\ remote_state'.wifi_packet_rate = 0
              \/ /\ now - remote_last_mobile_activity < REMOTE_POWER_STATE_INVALID_TIMEOUT
                 /\ remote_state'.mobile_queue_len = remote_state.mobile_queue_len
                 /\ remote_state'.wifi_packet_rate = remote_state.wifi_packet_rate
<1>1. remote_state.mobile_state \in {"IDLE", "FACH", "DCH"}
  BY ReportTypes DEF RemoteTypeOK, MobileState
<1>2. now \in Nat /\ remote_last_mobile_activity \in Nat
  BY DEF RemoteTypeOK
<1>3. remote_state'.mobile_state = AgedState /\ remote_last_mobile_activity' = AgedActivity
  BY PollStates DEF update_remote_power_model
<1>4. /\ remote_state'.mobile_queue_len = AgedQueue
      /\ remote_state'.wifi_packet_rate = AgedRate
  BY PollStates
<1> USE ConstantTypes, Ranks, <1>2
<1>5. CASE remote_state.mobile_state = "IDLE"
  BY <1>3, <1>4, <1>5 DEF AgedState, AgedActivity, RemoteTimedOut, AgedQueue, AgedRate,
     NothingHeard, idle_time
<1>6. CASE remote_state.mobile_state = "FACH"
  BY <1>3, <1>4, <1>6 DEF AgedState, AgedActivity, RemoteTimedOut, AgedQueue, AgedRate,
     NothingHeard, idle_time
<1>7. CASE remote_state.mobile_state = "DCH"
  BY <1>3, <1>4, <1>7 DEF AgedState, AgedActivity, RemoteTimedOut, AgedQueue, AgedRate,
     NothingHeard, idle_time
<1> QED
  BY <1>1, <1>5, <1>6, <1>7

\* What the delivery of a report does: it raises the radio's state or keeps it, and
\* starts its timer; or it is turned down, because the server has the radio higher.
LEMMA DeliverCases ==
    ASSUME FOLLOWS_HEADER, ONLY_ACTIVITIES, ReportingInv, Deliver
    PROVE  /\ UNCHANGED <<now, handset, last_server_poll, last_report>>
           /\ \E r \in network :
                /\ \/ /\ ~PassesOn(r.state)
                      /\ UNCHANGED remotevars
                   \/ /\ PassesOn(r.state)
                      /\ remote_state' = r.state
                      /\ remote_last_mobile_activity' = now
                /\ unheard' = (unheard /\ ~Handled(r))
<1>1. PICK r \in network :
        /\ IF PassesOn(r.state) THEN report_remote_mobile_activity(r.state)
                                ELSE UNCHANGED remotevars
        /\ unheard' = (unheard /\ ~Handled(r))
  BY DEF Deliver
<1>2. \/ ~PassesOn(r.state) /\ UNCHANGED remotevars
      \/ /\ PassesOn(r.state) /\ remote_state' = r.state
         /\ remote_last_mobile_activity' = now
  BY <1>1 DEF report_remote_mobile_activity, PassesOn
<1> QED
  BY <1>1, <1>2 DEF Deliver

\* A report that is passed on tells of an activity in a state no lower than the one
\* the server holds.
LEMMA PassedOn ==
    ASSUME FOLLOWS_HEADER, ONLY_ACTIVITIES, ReportingInv, NEW r \in network,
           PassesOn(r.state)
    PROVE  /\ ReportsActivity(r.state)
           /\ r.state.mobile_state \in {"FACH", "DCH"}
           /\ remote_state.mobile_state = "DCH" => r.state.mobile_state = "DCH"
<1>1. /\ r.state.mobile_state \in {"IDLE", "FACH", "DCH"}
      /\ remote_state.mobile_state \in {"IDLE", "FACH", "DCH"}
  BY ReportTypes DEF ReportingInv, RemoteTypeOK, MobileState
<1>2. \/ Rank(r.state.mobile_state) > Rank(remote_state.mobile_state)
      \/ /\ r.state.mobile_state = remote_state.mobile_state
         /\ r.state.mobile_state # "IDLE"
  BY DEF PassesOn, MayReport
<1>3. ReportsActivity(r.state)
  BY DEF PassesOn
<1> QED
  BY <1>1, <1>2, <1>3, Ranks

\* The types of what the arithmetic below is about.
LEMMA Instants ==
    ASSUME ReportingInv
    PROVE  /\ now \in Nat /\ remote_last_mobile_activity \in Nat
           /\ last_mobile_activity \in Nat /\ last_mobile_sample_time \in Nat
           /\ last_server_poll \in Nat /\ last_report \in Nat
           /\ last_server_poll <= now /\ last_report <= now /\ last_mobile_activity <= now
           /\ remote_last_mobile_activity <= now
           /\ now > 0 /\ now <= last_server_poll + MaxPollGap
           /\ remote_state.mobile_state \in {"IDLE", "FACH", "DCH"}
           /\ mobile_state \in {"IDLE", "FACH", "DCH"}
  BY ConstantTypes, ReportTypes DEF ReportingInv, RemoteTypeOK, Clocks, MobileState

\* The server's timers keep up with its polls.
LEMMA AgingNext ==
    ASSUME FOLLOWS_HEADER, ONLY_ACTIVITIES, ReportingInv, Aging, [ReportingNext]_reportingvars
    PROVE  Aging'
<1> USE ConstantTypes, Instants, Ranks
<1>1. CASE UNCHANGED <<remotevars, last_server_poll>> /\ last_report' >= last_report
           /\ last_report' \in Nat
  BY <1>1 DEF Aging, remotevars
<1>2. CASE Tick \/ HandsetTimeout \/ HandsetReset \/ Lose \/ UNCHANGED reportingvars
  BY <1>1, <1>2 DEF Tick, HandsetTimeout, HandsetReset, Lose, reportingvars
<1>3. CASE HandsetActivity \/ HandsetWifiReport
  <2>1. last_report' \in {last_report, now}
    BY <1>3 DEF HandsetActivity, HandsetWifiReport, Send
  <2>2. UNCHANGED <<remotevars, last_server_poll>>
    BY <1>3 DEF HandsetActivity, HandsetWifiReport
  <2> QED
    BY <1>1, <2>1, <2>2
<1>4. CASE Deliver
  <2>1. UNCHANGED <<now, last_server_poll, last_report>>
    BY <1>4, DeliverCases
  <2>2. PICK r \in network :
          \/ ~PassesOn(r.state) /\ UNCHANGED remotevars
          \/ /\ PassesOn(r.state)
             /\ remote_state' = r.state
             /\ remote_last_mobile_activity' = now
    BY <1>4, DeliverCases
  <2>3. CASE UNCHANGED remotevars
    BY <1>1, <2>1, <2>3
  <2>4. CASE PassesOn(r.state) /\ remote_state' = r.state
             /\ remote_last_mobile_activity' = now
    <3>1. now <= last_report + MaxDelay
      BY <2>2, <2>4 DEF PassesOn, ReportingInv, RemoteTypeOK, Clocks, Reports
    <3>2. remote_state'.mobile_state \in {"FACH", "DCH"}
      BY <1>4, <2>2, <2>4, PassedOn
    <3> QED
      BY <2>1, <2>4, <3>1, <3>2 DEF Aging
  <2> QED
    BY <2>2, <2>3, <2>4
<1>5. CASE ServerPoll
  <2>1. UNCHANGED <<now, last_report>> /\ last_server_poll' = now
    BY <1>5 DEF ServerPoll
  <2>2. RemoteTypeOK /\ update_remote_power_model
    BY <1>5 DEF ServerPoll, ReportingInv
  <2> DEFINE m == remote_state.mobile_state
             mm == remote_state'.mobile_state
             act == remote_last_mobile_activity
             act2 == remote_last_mobile_activity'
  <2>3. act2 \in {act, now}
    BY <2>2, PollStates
  <2>4. mm # "IDLE" => act2 > 0 /\ now < act2 + InactivityTimer(mm)
    BY <2>2, PollCases DEF Aging
  <2>5. mm = "DCH" => act2 <= last_report + MaxDelay
    BY <2>2, PollCases DEF Aging
  <2>6. mm = "FACH" => act2 <= last_report + MaxDelay
                               + MOBILE_DCH_INACTIVITY_TIMER + MaxPollGap
    BY <2>2, PollCases DEF Aging
  <2>7. remote_state'.mobile_queue_len # NoQueue \/ remote_state'.wifi_packet_rate > 0 =>
          now < act2 + REMOTE_POWER_STATE_INVALID_TIMEOUT
    BY <2>2, <2>3, PollCases
  <2> QED
    BY <2>1, <2>4, <2>5, <2>6, <2>7 DEF Aging
<1> QED
  BY <1>2, <1>3, <1>4, <1>5 DEF ReportingNext, Horizon

\* The server does not come down before the handset does, but for a poll.
LEMMA CoveredNext ==
    ASSUME FOLLOWS_HEADER, ONLY_ACTIVITIES, ReportingInv, Covered, [ReportingNext]_reportingvars
    PROVE  Covered'
<1> USE ConstantTypes, Instants, Ranks
<1>1. CASE Tick
  BY <1>1 DEF Tick, Covered, remotevars, handset
<1>2. CASE HandsetActivity \/ HandsetReset
  BY <1>2 DEF HandsetActivity, HandsetReset, HandsetTail!Restart, Covered
<1>3. CASE HandsetTimeout
  <2>1. UNCHANGED <<now, remotevars, unheard>>
        /\ \/ /\ mobile_state = "DCH" /\ mobile_state' = "FACH"
              /\ last_mobile_activity' = now
              /\ now >= last_mobile_activity + MOBILE_DCH_INACTIVITY_TIMER
           \/ mobile_state' = "IDLE"
    BY <1>3 DEF HandsetTimeout, HandsetTail!LeaveDCH, HandsetTail!LeaveFACH
  <2>2. mobile_state = "DCH" =>
          now <= last_mobile_activity + MOBILE_DCH_INACTIVITY_TIMER + MaxPollGap
    BY DEF ReportingInv, Clocks
  <2> QED
    BY <2>1, <2>2 DEF Covered, remotevars
<1>4. CASE HandsetWifiReport \/ Lose \/ UNCHANGED reportingvars
  BY <1>4 DEF HandsetWifiReport, Lose, reportingvars, Covered, remotevars, handset
<1>5. CASE Deliver
  <2>1. UNCHANGED <<now, mobile_state, last_mobile_activity>>
    BY <1>5, DeliverCases DEF handset
  <2>2. PICK r \in network :
          /\ \/ ~PassesOn(r.state) /\ UNCHANGED remotevars
             \/ /\ PassesOn(r.state)
                /\ remote_state' = r.state
                /\ remote_last_mobile_activity' = now
          /\ unheard' = (unheard /\ ~Handled(r))
    BY <1>5, DeliverCases
  <2>3. r.state.mobile_state \in {"IDLE", "FACH", "DCH"}
    BY ReportTypes DEF ReportingInv, RemoteTypeOK, MobileState
  <2>4. CASE ~unheard
    BY <2>1, <2>2, <2>3, <2>4 DEF PassesOn, MayReport, Covered, remotevars
  <2>5. CASE unheard /\ Handled(r)
    <3>1. /\ ReportsActivity(r.state) /\ r.state.mobile_state # "IDLE"
          /\ Rank(r.state.mobile_state) >= Rank(mobile_state)
      BY <2>5 DEF ReportingInv, Reports, Handled
    <3> QED
      BY <2>1, <2>2, <2>3, <3>1 DEF PassesOn, MayReport, Covered, remotevars
  <2>6. CASE unheard /\ ~Handled(r)
    BY <2>2, <2>6 DEF Covered
  <2> QED
    BY <2>4, <2>5, <2>6
<1>6. CASE ServerPoll
  <2>1. UNCHANGED <<now, mobile_state, last_mobile_activity, unheard>>
    BY <1>6 DEF ServerPoll, handset
  <2>2. RemoteTypeOK /\ update_remote_power_model
    BY <1>6 DEF ServerPoll, ReportingInv
  <2>3. CASE mobile_state = "DCH"
    BY <2>1, <2>2, <2>3, PollCases DEF Covered
  <2>4. CASE mobile_state = "FACH"
    BY <2>1, <2>2, <2>4, PollCases DEF Covered
  <2> QED
    BY <2>1, <2>3, <2>4 DEF Covered
<1> QED
  BY <1>1, <1>2, <1>3, <1>4, <1>5, <1>6 DEF ReportingNext, Horizon

LEMMA ServerInvHolds ==
    ASSUME FOLLOWS_HEADER, ONLY_ACTIVITIES
    PROVE  ReportingSpec => []ServerInv
<1>1. ReportingInit => ServerInv
  <2> SUFFICES ASSUME ReportingInit PROVE Aging /\ Covered
    BY ReportingInvInit DEF ServerInv
  <2> QED
    BY DEF ReportingInit, RemoteInit, Aging, Covered
<1>2. ServerInv /\ [ReportingNext]_reportingvars => ServerInv'
  BY ReportingInvNext, AgingNext, CoveredNext DEF ServerInv
<1> QED
  BY <1>1, <1>2, PTL DEF ReportingSpec

\* The server does not take the radio for lower than it is, unless the report of the
\* last activity has not arrived or the handset's own timer is within a poll of its
\* end, whatever reports are lost, delayed or overtaken.
THEOREM ServerCovers ==
    ASSUME FOLLOWS_HEADER, ONLY_ACTIVITIES
    PROVE  ReportingSpec => []ServerCoversHandset
<1>1. ServerInv => ServerCoversHandset
  <2> SUFFICES ASSUME ServerInv, Rank(remote_state.mobile_state) < Rank(mobile_state),
                      ~unheard
               PROVE  Overdue(mobile_state, last_mobile_activity, -MaxPollGap)
    BY DEF ServerCoversHandset
  <2> USE ConstantTypes, Ranks
  <2>1. /\ now \in Nat /\ last_mobile_activity \in Nat
        /\ remote_last_mobile_activity \in Nat /\ remote_last_mobile_activity <= now
        /\ remote_state.mobile_state \in {"IDLE", "FACH", "DCH"}
        /\ mobile_state \in {"IDLE", "FACH", "DCH"}
    BY Instants DEF ServerInv
  <2>2. CASE mobile_state = "DCH"
    BY <2>1, <2>2 DEF ServerInv, Covered, Overdue
  <2>3. CASE mobile_state = "FACH"
    BY <2>1, <2>3 DEF ServerInv, Covered, Overdue
  <2> QED
    BY <2>1, <2>2, <2>3
<1> QED
  BY <1>1, ServerInvHolds, PTL

\* The server falls idle in time when it hears of no more traffic.
THEOREM ServerFallsIdleInTime ==
    ASSUME FOLLOWS_HEADER, ONLY_ACTIVITIES
    PROVE  ReportingSpec => []ServerFallsIdle
<1>1. ServerInv => ServerFallsIdle
  <2> SUFFICES ASSUME ServerInv, remote_state.mobile_state # "IDLE"
               PROVE  now - last_report <= MaxDelay + MOBILE_DCH_INACTIVITY_TIMER
                          + MOBILE_FACH_INACTIVITY_TIMER + 2 * MaxPollGap
    <3>1. ServerInv => now \in Nat /\ last_report \in Nat
      BY Instants DEF ServerInv
    <3> QED
      BY <3>1, ConstantTypes DEF ServerFallsIdle
  <2> USE ConstantTypes, Ranks
  <2>1. /\ now \in Nat /\ last_report \in Nat /\ remote_last_mobile_activity \in Nat
        /\ last_server_poll \in Nat /\ now <= last_server_poll + MaxPollGap
        /\ remote_state.mobile_state \in {"FACH", "DCH"}
    BY Instants DEF ServerInv
  <2>2. CASE remote_state.mobile_state = "DCH"
    BY <2>1, <2>2 DEF ServerInv, Aging
  <2>3. CASE remote_state.mobile_state = "FACH"
    BY <2>1, <2>3 DEF ServerInv, Aging
  <2> QED
    BY <2>1, <2>2, <2>3
<1> QED
  BY <1>1, ServerInvHolds, PTL

\* Queues and packet rates are dropped a poll after the timeout at the latest.
THEOREM NoStaleRemoteState ==
    ASSUME FOLLOWS_HEADER, ONLY_ACTIVITIES
    PROVE  ReportingSpec => []NothingStaleIsKept
<1>1. ServerInv => NothingStaleIsKept
  BY ConstantTypes, Instants DEF ServerInv, Aging, NothingStaleIsKept
<1> QED
  BY <1>1, ServerInvHolds, PTL
-----------------------------------------------------------------------------
(* The server's model is a tracker of the radio.                           *)

LEMMA ServerTailInit == ReportingInit => ServerTail!TailInit
  BY ConstantTypes DEF ReportingInit, RemoteInit, ServerTail!TailInit

\* Each step of the server, the network and the clock is one of the abstract
\* tracker's, or changes nothing of it.
LEMMA ServerTailStep ==
    ASSUME FOLLOWS_HEADER, ONLY_ACTIVITIES, ServerInv, [ReportingNext]_reportingvars
    PROVE  [ServerTail!TailNext]_(ServerTail!tailvars)
<1> USE ConstantTypes
<1>0. ReportingInv /\ Aging
  BY DEF ServerInv
<1>1. CASE UNCHANGED <<now, remotevars>>
  BY <1>1 DEF remotevars, ServerTail!tailvars
<1>2. CASE \/ HandsetActivity \/ HandsetTimeout \/ HandsetReset \/ HandsetWifiReport
           \/ Lose \/ UNCHANGED reportingvars
  <2>1. UNCHANGED <<now, remotevars>>
    BY <1>2 DEF HandsetActivity, HandsetTimeout, HandsetReset, HandsetWifiReport, Lose,
       reportingvars, HandsetTail!Activity, HandsetTail!LeaveDCH, HandsetTail!LeaveFACH,
       HandsetTail!Restart
  <2> QED
    BY <1>1, <2>1
<1>3. CASE Tick
  <2>1. ServerTail!Elapse
    BY <1>0, <1>3, Instants DEF Tick, remotevars, ServerTail!Elapse
  <2> QED
    BY <2>1 DEF ServerTail!TailNext
<1>4. CASE Deliver
  <2>1. now' = now
    BY <1>0, <1>4, DeliverCases
  <2>2. PICK r \in network :
          \/ ~PassesOn(r.state) /\ UNCHANGED remotevars
          \/ /\ PassesOn(r.state)
             /\ remote_state' = r.state
             /\ remote_last_mobile_activity' = now
    BY <1>0, <1>4, DeliverCases
  <2>3. CASE UNCHANGED remotevars
    BY <1>1, <2>1, <2>3
  <2>4. CASE PassesOn(r.state) /\ remote_state' = r.state
             /\ remote_last_mobile_activity' = now
    <3>1. /\ r.state.mobile_state \in {"FACH", "DCH"}
          /\ remote_state.mobile_state = "DCH" => r.state.mobile_state = "DCH"
      BY <1>0, <2>2, <2>4, PassedOn
    <3>3. ServerTail!Activity
      BY <1>0, <2>1, <2>4, <3>1, Instants DEF ServerTail!Activity
    <3> QED
      BY <3>3 DEF ServerTail!TailNext
  <2> QED
    BY <2>2, <2>3, <2>4
<1>5. CASE ServerPoll
  <2>1. now' = now
    BY <1>5 DEF ServerPoll
  <2>2. RemoteTypeOK /\ update_remote_power_model
    BY <1>0, <1>5 DEF ServerPoll, ReportingInv
  <2>3. CASE remote_state'.mobile_state = remote_state.mobile_state
    <3>1. remote_last_mobile_activity' = remote_last_mobile_activity
      BY <2>2, <2>3, PollCases
    <3> QED
      BY <2>1, <2>3, <3>1 DEF ServerTail!tailvars
  <2>4. CASE remote_state.mobile_state = "DCH" /\ remote_state'.mobile_state # "DCH"
    <3>1. ServerTail!LeaveDCH
      BY <1>0, <2>1, <2>2, <2>4, PollCases, Instants DEF Aging, ServerTail!LeaveDCH
    <3> QED
      BY <3>1 DEF ServerTail!TailNext
  <2>5. CASE remote_state.mobile_state = "FACH" /\ remote_state'.mobile_state # "FACH"
    <3>1. ServerTail!LeaveFACH
      BY <1>0, <2>1, <2>2, <2>5, PollCases, Instants DEF Aging, ServerTail!LeaveFACH
    <3> QED
      BY <3>1 DEF ServerTail!TailNext
  <2> QED
    BY <1>0, <2>2, <2>3, <2>4, <2>5, PollCases, Instants
<1> QED
  BY <1>2, <1>3, <1>4, <1>5 DEF ReportingNext, Horizon

\* The server's model implements the abstract tracker that the handset's own tracker
\* implements, although it is fed by reports that may be lost, late and out of
\* order: it climbs on reports, and comes down one state at a time, each after a full
\* timer.
THEOREM ServerImplementsTail ==
    ASSUME FOLLOWS_HEADER, ONLY_ACTIVITIES
    PROVE  ReportingSpec => ImplementsServerTail
<1>1. ServerInv /\ [ReportingNext]_reportingvars => [ServerTail!TailNext]_(ServerTail!tailvars)
  BY ServerTailStep
<1> QED
  BY <1>1, ServerTailInit, ServerInvHolds, PTL
     DEF ReportingSpec, ImplementsServerTail, ServerTail!TailSpec
=============================================================================
