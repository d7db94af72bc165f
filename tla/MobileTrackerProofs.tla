------------------------- MODULE MobileTrackerProofs -------------------------
(***************************************************************************)
(* Theorems about MobileTracker, for every power model, clock, poll        *)
(* interval, transfer size and bound that the assumptions admit.           *)
(***************************************************************************)
EXTENDS MobileTracker, TLAPS

\* All constants the proofs compute with have their types.
LEMMA ConstantTypes ==
    /\ SECOND \in Nat /\ SECOND > 0
    /\ MOBILE_DCH_INACTIVITY_TIMER \in Nat
    /\ MOBILE_FACH_INACTIVITY_TIMER \in Nat
    /\ MOBILE_DCH_INACTIVITY_TIMER >= SECOND
    /\ MOBILE_FACH_INACTIVITY_TIMER >= SECOND
    /\ StartTime \in Nat /\ StartTime >= SECOND
    /\ MaxTime \in Nat
    /\ Transfers \subseteq Nat
  BY SecondAssumption, TimerAssumption, ClockAssumption, PlatformAssumption,
     TransferAssumption DEF HasElapsedSecond

\* The difference of two ordered instants is a duration.
LEMMA Duration == \A from, to \in Nat : from <= to => to - from \in Nat
  OBVIOUS

\* What the small operators of the tracker return, in a state of the right type.
LEMMA OperatorTypes ==
    ASSUME TypeOK
    PROVE  /\ Stored \in [Direction -> Nat]
           /\ Delta \in [Direction -> Int]
           /\ Promoted \in {"FACH", "DCH"}
           /\ NoCount \in [Direction -> Nat]
           /\ NoCount \in [Direction -> Int]
           /\ Demoted(mobile_state) \in MobileState
           /\ QuietActivity \in Nat
           /\ FreshTimes \in [MobileState -> Nat]
           /\ FreshCounts \in [MobileState -> Nat \ {0}]
           /\ \A d \in Direction : mobile_last_bytes[d] \in Int
  BY ConstantTypes DEF TypeOK, Stored, Delta, Promoted, NoCount, Demoted,
     QuietActivity, FreshTimes, FreshCounts, MobileState, Direction, Unsampled
-----------------------------------------------------------------------------
(* Type correctness and the order of the time stamps.                      *)

\* No stamp lies in the future, and the clock is past its first second: what the
\* assertion in TIMEDIFF asks of every pair of stamps the tracker subtracts.
Stamps ==
    /\ last_mobile_activity <= now
    /\ last_mobile_sample_time <= now
    /\ last_mobile_state_change <= now
    /\ last_reset <= now
    /\ last_poll <= now
    /\ last_traffic <= now
    /\ HasElapsedSecond(last_mobile_state_change)
    /\ HasElapsedSecond(now)

TInv == TypeOK /\ Stamps

LEMMA TInvInit == MobileInit => TInv
<1> SUFFICES ASSUME MobileInit PROVE TInv
  OBVIOUS
<1>1. mobile_dev \in [up : BOOLEAN, bytes : [Direction -> Nat]]
  <2>1. PICK u \in BOOLEAN : mobile_dev = [up |-> u, bytes |-> NoCount]
    BY DEF MobileInit
  <2> QED
    BY <2>1 DEF NoCount
<1>2. /\ time_in_mobile_state \in [MobileState -> Nat]
      /\ idle_durations_per_state \in [MobileState -> Nat]
      /\ idle_duration_update_counts \in [MobileState -> Nat \ {0}]
      /\ mobile_last_delta_bytes \in [Direction -> Int]
  BY ConstantTypes DEF MobileInit, FreshTimes, FreshCounts, NoCount
<1>3. TypeOK
  BY <1>1, <1>2, ConstantTypes DEF MobileInit, TypeOK, MobileState
<1>4. Stamps
  BY ConstantTypes, ClockAssumption DEF MobileInit, Stamps, HasElapsedSecond
<1> QED
  BY <1>3, <1>4 DEF TInv

\* The idle times recorded by a poll are never negative.
LEMMA RecordIdleType ==
    ASSUME TInv, RecordIdleDuration, mobile_state' \in MobileState,
           last_mobile_activity' \in Nat, last_mobile_activity' <= now
    PROVE  /\ idle_durations_per_state' \in [MobileState -> Nat]
           /\ idle_duration_update_counts' \in [MobileState -> Nat \ {0}]
<1>0. now \in Nat
  BY DEF TInv, TypeOK
<1>1. now - last_mobile_activity' \in Nat
  BY <1>0, Duration
<1>2. \A n \in Nat : n + (now - last_mobile_activity') \in Nat
  BY <1>1
<1>3. \A n \in Nat \ {0} : n + 1 \in Nat \ {0}
  OBVIOUS
<1> QED
  BY <1>2, <1>3 DEF TInv, TypeOK, RecordIdleDuration

\* So are the times added up per state.
LEMMA RecordChangeType ==
    ASSUME TInv, RecordStateChange
    PROVE  /\ time_in_mobile_state' \in [MobileState -> Nat]
           /\ last_mobile_state_change' \in Nat
           /\ last_mobile_state_change' <= now
           /\ HasElapsedSecond(last_mobile_state_change')
<1>1. now - last_mobile_state_change \in Nat
  BY DEF TInv, TypeOK, Stamps
<1>2. AddTimeInState \in [MobileState -> Nat]
  BY <1>1 DEF AddTimeInState, TInv, TypeOK
<1> QED
  BY <1>2 DEF RecordStateChange, TInv, TypeOK, Stamps

\* A poll keeps the types and the order of the stamps.
LEMMA TInvPoll == TInv /\ Poll => TInv'
<1> SUFFICES ASSUME TInv, Poll PROVE TInv'
  OBVIOUS
<1>0. TypeOK /\ Stamps
  BY DEF TInv
<1> USE ConstantTypes, OperatorTypes, <1>0
<1>1. /\ now' = now /\ mobile_dev' = mobile_dev /\ last_reset' = last_reset
      /\ last_traffic' = last_traffic /\ last_poll' = now
  BY DEF Poll
<1>2. CASE UpdateReadFails
  BY <1>1, <1>2 DEF UpdateReadFails, estimate, idlevars, TInv, TypeOK, Stamps
<1>3. CASE UpdateBaseline
  <2>1. /\ mobile_state' = mobile_state
        /\ last_mobile_activity' = last_mobile_activity
        /\ last_mobile_state_change' = last_mobile_state_change
        /\ mobile_last_delta_bytes' = mobile_last_delta_bytes
        /\ time_in_mobile_state' = time_in_mobile_state
        /\ last_mobile_sample_time' = now
        /\ mobile_last_bytes' \in [Direction -> Nat]
        /\ RecordIdleDuration
    BY <1>3 DEF UpdateBaseline
  <2>2. /\ idle_durations_per_state' \in [MobileState -> Nat]
        /\ idle_duration_update_counts' \in [MobileState -> Nat \ {0}]
    BY <2>1, RecordIdleType DEF TInv, TypeOK, Stamps
  <2> QED
    BY <1>1, <2>1, <2>2 DEF TInv, TypeOK, Stamps
<1>4. CASE UpdateActivity
  <2>1. /\ mobile_state' \in MobileState
        /\ last_mobile_activity' = now
        /\ last_mobile_sample_time' = now
        /\ mobile_last_delta_bytes' \in [Direction -> Int]
        /\ mobile_last_bytes' \in [Direction -> Nat]
        /\ RecordStateChange
        /\ RecordIdleDuration
    BY <1>4 DEF UpdateActivity, MobileState
  <2>2. /\ idle_durations_per_state' \in [MobileState -> Nat]
        /\ idle_duration_update_counts' \in [MobileState -> Nat \ {0}]
    BY <2>1, RecordIdleType DEF TInv, TypeOK
  <2>3. /\ time_in_mobile_state' \in [MobileState -> Nat]
        /\ last_mobile_state_change' \in Nat
        /\ last_mobile_state_change' <= now
        /\ HasElapsedSecond(last_mobile_state_change')
    BY <2>1, RecordChangeType
  <2> QED
    BY <1>1, <2>1, <2>2, <2>3 DEF TInv, TypeOK, Stamps
<1>5. CASE UpdateQuiet
  <2>1. /\ mobile_state' \in MobileState
        /\ last_mobile_activity' \in {now, last_mobile_activity}
        /\ last_mobile_sample_time' = last_mobile_sample_time
        /\ mobile_last_delta_bytes' \in [Direction -> Int]
        /\ mobile_last_bytes' = mobile_last_bytes
        /\ RecordStateChange
        /\ RecordIdleDuration
    BY <1>5 DEF UpdateQuiet, QuietDelta, QuietActivity, TypeOK
  <2>2. /\ idle_durations_per_state' \in [MobileState -> Nat]
        /\ idle_duration_update_counts' \in [MobileState -> Nat \ {0}]
    BY <2>1, RecordIdleType DEF TInv, TypeOK, Stamps
  <2>3. /\ time_in_mobile_state' \in [MobileState -> Nat]
        /\ last_mobile_state_change' \in Nat
        /\ last_mobile_state_change' <= now
        /\ HasElapsedSecond(last_mobile_state_change')
    BY <2>1, RecordChangeType
  <2> QED
    BY <1>1, <2>1, <2>2, <2>3 DEF TInv, TypeOK, Stamps
<1> QED
  BY <1>2, <1>3, <1>4, <1>5 DEF Poll, update_mobile_state

\* Every step keeps the types and the order of the stamps.
LEMMA TInvNext == TInv /\ [MobileNext]_mobilevars => TInv'
<1> SUFFICES ASSUME TInv, [MobileNext]_mobilevars PROVE TInv'
  OBVIOUS
<1> USE ConstantTypes DEF TInv, TypeOK, Stamps, estimate, idlevars, HasElapsedSecond
<1>1. CASE Tick
  BY <1>1 DEF Tick
<1>2. CASE Transfer
  <2>1. PICK d \in Direction, n \in Transfers :
           mobile_dev' = [mobile_dev EXCEPT !.bytes[d] = @ + n]
    BY <1>2 DEF Transfer
  <2>2. mobile_dev' \in [up : BOOLEAN, bytes : [Direction -> Nat]]
    BY <2>1
  <2> QED
    BY <1>2, <2>2 DEF Transfer
<1>3. CASE DevDown
  BY <1>3 DEF DevDown
<1>4. CASE DevUp
  BY <1>4 DEF DevUp, NoCount
<1>5. CASE Poll
  BY <1>5, TInvPoll
<1>6. CASE ResetStats
  <2>1. NoCount \in [Direction -> Nat] /\ NoCount \in [Direction -> Int]
    BY DEF NoCount
  <2>2. mobile_dev' \in [up : BOOLEAN, bytes : [Direction -> Nat]]
    BY <1>6, <2>1 DEF ResetStats
  <2>3. /\ FreshTimes \in [MobileState -> Nat]
        /\ FreshCounts \in [MobileState -> Nat \ {0}]
    BY OperatorTypes
  <2>4. /\ mobile_state' = "IDLE" /\ now' = now
        /\ last_mobile_activity' = now
        /\ last_mobile_sample_time' = now
        /\ last_mobile_state_change' = now
        /\ mobile_last_bytes' = Unsampled
        /\ mobile_last_delta_bytes' = NoCount
        /\ time_in_mobile_state' = FreshTimes
        /\ idle_durations_per_state' = [s \in MobileState |-> 0]
        /\ idle_duration_update_counts' = FreshCounts
        /\ last_reset' = now /\ last_poll' = now /\ last_traffic' = last_traffic
    BY <1>6 DEF ResetStats
  <2> QED
    BY <2>1, <2>2, <2>3, <2>4 DEF MobileState
<1>7. CASE UNCHANGED mobilevars
  BY <1>7 DEF mobilevars
<1> QED
  BY <1>1, <1>2, <1>3, <1>4, <1>5, <1>6, <1>7 DEF MobileNext, Horizon

\* Type correctness of the tracker.
THEOREM TypeCorrect == MobileSpec => []TypeOK
<1>1. TInv => TypeOK
  BY DEF TInv
<1> QED
  BY <1>1, TInvInit, TInvNext, PTL DEF MobileSpec
-----------------------------------------------------------------------------
(* The times per state add up.                                             *)

\* Adding n to the time of one state adds n to the total.
LEMMA TotalTimeAdds ==
    ASSUME NEW t \in [MobileState -> Nat], NEW s \in MobileState, NEW n \in Nat
    PROVE  TotalTime([t EXCEPT ![s] = @ + n]) = TotalTime(t) + n
<1>1. /\ t["IDLE"] \in Nat /\ t["FACH"] \in Nat /\ t["DCH"] \in Nat
  BY DEF MobileState
<1>2. CASE s = "IDLE"
  BY <1>1, <1>2 DEF TotalTime, MobileState
<1>3. CASE s = "FACH"
  BY <1>1, <1>3 DEF TotalTime, MobileState
<1>4. CASE s = "DCH"
  BY <1>1, <1>4 DEF TotalTime, MobileState
<1> QED
  BY <1>2, <1>3, <1>4 DEF MobileState

\* The total is a number, and just after a reset it is the credited second.
LEMMA TotalTimeType ==
    /\ \A t \in [MobileState -> Nat] : TotalTime(t) \in Nat
    /\ TotalTime(FreshTimes) = SECOND
  BY ConstantTypes DEF TotalTime, FreshTimes, MobileState

\* Closing the stay in one state moves its length into the total.
LEMMA RecordKeepsTotal ==
    ASSUME TInv, RecordStateChange
    PROVE  TotalTime(time_in_mobile_state') + (now - last_mobile_state_change')
           = TotalTime(time_in_mobile_state) + (now - last_mobile_state_change)
<1>1. CASE mobile_state' = mobile_state
  BY <1>1 DEF RecordStateChange
<1>2. CASE mobile_state' # mobile_state
  <2> DEFINE stay == now - last_mobile_state_change
  <2>1. /\ stay \in Nat /\ now \in Nat
        /\ mobile_state \in MobileState
        /\ time_in_mobile_state \in [MobileState -> Nat]
    BY DEF TInv, TypeOK, Stamps
  <2>2. time_in_mobile_state'
          = [time_in_mobile_state EXCEPT ![mobile_state] = @ + stay]
    BY <1>2 DEF RecordStateChange, AddTimeInState, TInv, Stamps
  <2>3. last_mobile_state_change' = now
    BY <1>2 DEF RecordStateChange
  <2>4. TotalTime(time_in_mobile_state') = TotalTime(time_in_mobile_state) + stay
    <3> HIDE DEF stay
    <3> QED
      BY <2>1, <2>2, TotalTimeAdds
  <2>5. TotalTime(time_in_mobile_state) + stay \in Nat
    <3> HIDE DEF stay
    <3> QED
      BY <2>1, TotalTimeType
  <2>6. now - last_mobile_state_change' = 0
    BY <2>1, <2>3
  <2> QED
    BY <2>4, <2>5, <2>6
<1> QED
  BY <1>1, <1>2

\* TimeAccounted, with the type invariant, is inductive.
LEMMA TimeAccountedInit == MobileInit => TimeAccounted
  BY ConstantTypes, TotalTimeType DEF MobileInit, TimeAccounted

LEMMA TimeAccountedNext ==
    TInv /\ TimeAccounted /\ [MobileNext]_mobilevars => TimeAccounted'
<1> SUFFICES ASSUME TInv, TimeAccounted, [MobileNext]_mobilevars
             PROVE  TimeAccounted'
  OBVIOUS
<1>0. /\ now \in Nat /\ last_reset \in Nat /\ last_mobile_state_change \in Nat
      /\ TotalTime(time_in_mobile_state) \in Nat
  BY TotalTimeType DEF TInv, TypeOK
<1>1. CASE Tick
  <2>1. /\ now' = now + 1 /\ last_reset' = last_reset
        /\ last_mobile_state_change' = last_mobile_state_change
        /\ time_in_mobile_state' = time_in_mobile_state
    BY <1>1 DEF Tick, estimate
  <2> QED
    BY <1>0, <2>1, ConstantTypes DEF TimeAccounted
<1>2. CASE Poll
  <2>1. CASE RecordStateChange
    BY <1>2, <2>1, RecordKeepsTotal DEF Poll, TimeAccounted
  <2>2. CASE UNCHANGED <<time_in_mobile_state, last_mobile_state_change>>
    BY <1>2, <2>2 DEF Poll, TimeAccounted
  <2> QED
    BY <1>2, <2>1, <2>2 DEF Poll, update_mobile_state, UpdateReadFails,
       UpdateBaseline, UpdateActivity, UpdateQuiet, estimate
<1>3. CASE ResetStats
  <2>1. /\ now' = now /\ last_reset' = now /\ last_mobile_state_change' = now
        /\ time_in_mobile_state' = FreshTimes
    BY <1>3 DEF ResetStats
  <2> QED
    BY <1>0, <2>1, TotalTimeType, ConstantTypes DEF TimeAccounted
<1>4. CASE UNCHANGED <<now, last_reset, last_mobile_state_change, time_in_mobile_state>>
  BY <1>4 DEF TimeAccounted
<1> QED
  BY <1>1, <1>2, <1>3, <1>4 DEF MobileNext, Transfer, DevDown, DevUp, Horizon,
     estimate, mobilevars

\* The times per state sum to the time since the last reset.
THEOREM TimesAddUp == MobileSpec => []TimeAccounted
  BY TInvInit, TInvNext, TimeAccountedInit, TimeAccountedNext, PTL DEF MobileSpec
-----------------------------------------------------------------------------
(* Every stay lasts a full timer.                                          *)

\* While the radio is in FACH or DCH, the inactivity timer runs from no earlier
\* than the entry into the state and the last sample, and samples are compared
\* with a baseline.
TailOrder ==
    mobile_state # "IDLE" =>
        /\ last_mobile_activity >= last_mobile_state_change
        /\ last_mobile_activity >= last_mobile_sample_time
        /\ mobile_last_bytes["DOWN"] # -1

LEMMA TailOrderPoll == TInv /\ TailOrder /\ Poll => TailOrder'
<1> SUFFICES ASSUME TInv, TailOrder, Poll PROVE TailOrder'
  OBVIOUS
<1>0. /\ now \in Nat /\ last_mobile_activity \in Nat
      /\ last_mobile_state_change \in Nat /\ last_mobile_sample_time \in Nat
      /\ last_mobile_activity <= now /\ last_mobile_state_change <= now
      /\ last_mobile_sample_time <= now
      /\ mobile_state \in MobileState
      /\ Stored["DOWN"] # -1
  BY OperatorTypes DEF TInv, TypeOK, Stamps, Direction
<1>1. CASE UpdateReadFails
  BY <1>1 DEF UpdateReadFails, estimate, TailOrder
<1>2. CASE UpdateBaseline
  BY <1>2 DEF UpdateBaseline, TailOrder
<1>3. CASE UpdateActivity
  <2>1. /\ last_mobile_activity' = now /\ last_mobile_sample_time' = now
        /\ mobile_last_bytes' = Stored
        /\ last_mobile_state_change' \in {now, last_mobile_state_change}
    BY <1>3 DEF UpdateActivity, RecordStateChange
  <2> QED
    BY <1>0, <2>1 DEF TailOrder
<1>4. CASE UpdateQuiet
  <2>1. /\ last_mobile_sample_time' = last_mobile_sample_time
        /\ mobile_last_bytes' = mobile_last_bytes
        /\ RecordStateChange
    BY <1>4 DEF UpdateQuiet
  <2>2. CASE ~TimedOut
    BY <1>4, <2>1, <2>2 DEF UpdateQuiet, QuietActivity, RecordStateChange, TailOrder
  <2>3. CASE TimedOut /\ mobile_state = "DCH"
    <3>1. last_mobile_activity' = now /\ last_mobile_state_change' = now
      BY <1>4, <2>1, <2>3 DEF UpdateQuiet, QuietActivity, RecordStateChange, Demoted
    <3> QED
      BY <1>0, <2>1, <2>3, <3>1 DEF TailOrder
  <2>4. CASE TimedOut /\ mobile_state = "FACH"
    BY <1>4, <2>4 DEF UpdateQuiet, Demoted, TailOrder
  <2> QED
    BY <1>0, <2>2, <2>3, <2>4 DEF TimedOut, MobileState
<1> QED
  BY <1>1, <1>2, <1>3, <1>4 DEF Poll, update_mobile_state

LEMMA TailOrderNext == TInv /\ TailOrder /\ [MobileNext]_mobilevars => TailOrder'
<1> SUFFICES ASSUME TInv, TailOrder, [MobileNext]_mobilevars PROVE TailOrder'
  OBVIOUS
<1>1. CASE Poll
  BY <1>1, TailOrderPoll
<1>2. CASE ResetStats
  BY <1>2 DEF ResetStats, TailOrder
<1>3. CASE UNCHANGED estimate
  BY <1>3 DEF estimate, TailOrder
<1> QED
  BY <1>1, <1>2, <1>3 DEF MobileNext, Tick, Transfer, DevDown, DevUp, Horizon,
     mobilevars

\* The radio steps down one state at a time, after a full inactivity timer in it.
THEOREM StaysLastATimer == MobileSpec => FullTail
<1> DEFINE StepDown ==
       Poll /\ mobile_state # "IDLE" /\ mobile_state' # mobile_state =>
          \/ mobile_state' = "DCH"
          \/ /\ mobile_state' = Demoted(mobile_state)
             /\ now - last_mobile_state_change >= InactivityTimer(mobile_state)
<1>1. TInv /\ TailOrder /\ [MobileNext]_mobilevars => [StepDown]_mobilevars
  <2> SUFFICES ASSUME TInv, TailOrder, Poll,
                      mobile_state # "IDLE", mobile_state' # mobile_state,
                      mobile_state' # "DCH"
               PROVE  /\ mobile_state' = Demoted(mobile_state)
                      /\ now - last_mobile_state_change >= InactivityTimer(mobile_state)
    OBVIOUS
  <2>1. ~UpdateReadFails /\ ~UpdateBaseline
    BY DEF UpdateReadFails, UpdateBaseline, estimate
  <2>2. ~UpdateActivity
    BY DEF UpdateActivity, Promoted, TInv, TypeOK, MobileState
  <2>3. UpdateQuiet
    BY <2>1, <2>2 DEF Poll, update_mobile_state
  <2>4. TimedOut /\ mobile_state' = Demoted(mobile_state)
    BY <2>3 DEF UpdateQuiet
  <2>5. /\ now \in Nat /\ last_mobile_activity \in Nat
        /\ last_mobile_state_change \in Nat
        /\ InactivityTimer(mobile_state) \in Nat
    BY ConstantTypes DEF TInv, TypeOK, InactivityTimer
  <2>6. last_mobile_activity >= last_mobile_state_change
    BY DEF TailOrder
  <2> QED
    BY <2>4, <2>5, <2>6 DEF TimedOut
<1>2. MobileInit => TailOrder
  BY DEF MobileInit, TailOrder
<1> QED
  BY <1>1, <1>2, TInvInit, TInvNext, TailOrderNext, PTL DEF MobileSpec, FullTail
-----------------------------------------------------------------------------
(* The tracker implements RadioTail.                                       *)

\* A poll is a step of the abstract radio: activity, the end of a timer, or
\* nothing at all.
LEMMA PollRefines ==
    ASSUME TInv, Poll
    PROVE  \/ Tail!Activity \/ Tail!LeaveDCH \/ Tail!LeaveFACH
           \/ UNCHANGED <<now, mobile_state, last_mobile_activity, last_reset>>
<1>0. now' = now /\ last_reset' = last_reset
  BY DEF Poll
<1>1. CASE UpdateReadFails
  BY <1>0, <1>1 DEF UpdateReadFails, estimate
<1>2. CASE UpdateBaseline
  BY <1>0, <1>2 DEF UpdateBaseline
<1>3. CASE UpdateActivity
  BY <1>0, <1>3 DEF UpdateActivity, Promoted, Tail!Activity
<1>4. CASE UpdateQuiet
  <2>1. CASE ~TimedOut
    BY <1>0, <1>4, <2>1 DEF UpdateQuiet, QuietActivity
  <2>2. CASE TimedOut /\ mobile_state = "DCH"
    BY <1>0, <1>4, <2>2 DEF UpdateQuiet, QuietActivity, TimedOut, InactivityTimer,
       Demoted, Tail!LeaveDCH
  <2>3. CASE TimedOut /\ mobile_state = "FACH"
    BY <1>0, <1>4, <2>3 DEF UpdateQuiet, QuietActivity, TimedOut, InactivityTimer,
       Demoted, Tail!LeaveFACH
  <2> QED
    BY <2>1, <2>2, <2>3 DEF TimedOut, TInv, TypeOK, MobileState
<1> QED
  BY <1>1, <1>2, <1>3, <1>4 DEF Poll, update_mobile_state

\* Every behaviour of the tracker is one of the abstract radio.
THEOREM Refinement == MobileSpec => ImplementsRadioTail
<1>1. MobileInit => Tail!TailInit
  BY ConstantTypes DEF MobileInit, Tail!TailInit
<1>2. TInv /\ [MobileNext]_mobilevars => [Tail!TailNext]_(Tail!tailvars)
  <2> SUFFICES ASSUME TInv, [MobileNext]_mobilevars
               PROVE  [Tail!TailNext]_(Tail!tailvars)
    OBVIOUS
  <2>1. CASE Tick
    <3>1. now \in Nat
      BY DEF TInv, TypeOK
    <3>2. now' \in Nat /\ now' > now
      BY <2>1, <3>1 DEF Tick
    <3> QED
      BY <2>1, <3>2 DEF Tick, estimate, Tail!Elapse, Tail!TailNext
  <2>2. CASE Poll
    BY <2>2, PollRefines DEF Tail!TailNext, Tail!tailvars
  <2>3. CASE ResetStats
    BY <2>3 DEF ResetStats, Tail!Restart, Tail!TailNext
  <2>4. CASE UNCHANGED <<now, mobile_state, last_mobile_activity, last_reset>>
    BY <2>4 DEF Tail!tailvars
  <2> QED
    BY <2>1, <2>2, <2>3, <2>4 DEF MobileNext, Transfer, DevDown, DevUp, Horizon,
       estimate, mobilevars
<1> QED
  BY <1>1, <1>2, TInvInit, TInvNext, PTL
  DEF MobileSpec, ImplementsRadioTail, Tail!TailSpec
-----------------------------------------------------------------------------
(* An interface that never restarts: no demotion over unseen traffic.      *)

\* The counters only grow, so a sample never exceeds them.
CounterOrder ==
    /\ mobile_dev.up
    /\ \A d \in Direction : mobile_last_bytes[d] <= mobile_dev.bytes[d]

LEMMA CounterOrderInit ==
    ASSUME ~IFACE_RESTARTS, MobileInit
    PROVE  CounterOrder
<1>1. mobile_dev \in [up : {TRUE}, bytes : {NoCount}]
  BY DEF MobileInit
<1>2. mobile_dev.up /\ mobile_dev.bytes = NoCount
  BY <1>1
<1>3. mobile_last_bytes = Unsampled
  BY DEF MobileInit
<1> QED
  BY <1>2, <1>3 DEF CounterOrder, Unsampled, NoCount

LEMMA CounterOrderNext ==
    ASSUME ~IFACE_RESTARTS, TInv, CounterOrder, [MobileNext]_mobilevars
    PROVE  CounterOrder'
<1>0. /\ mobile_dev \in [up : BOOLEAN, bytes : [Direction -> Nat]]
      /\ \A d \in Direction : mobile_last_bytes[d] \in Int
      /\ mobile_dev.up
  BY OperatorTypes DEF TInv, TypeOK, CounterOrder
<1>1. CASE Transfer
  <2>1. PICK d \in Direction, n \in Transfers :
           mobile_dev' = [mobile_dev EXCEPT !.bytes[d] = @ + n]
    BY <1>1 DEF Transfer
  <2>2. n \in Nat
    BY <2>1, ConstantTypes
  <2>3. \A e \in Direction : mobile_dev.bytes[e] <= mobile_dev'.bytes[e]
    BY <1>0, <2>1, <2>2
  <2>4. mobile_last_bytes' = mobile_last_bytes /\ mobile_dev'.up
    BY <1>0, <1>1, <2>1 DEF Transfer, estimate
  <2>5. \A e \in Direction : mobile_dev'.bytes[e] \in Nat
    BY <1>0, <2>1, <2>2
  <2>6. \A e \in Direction : mobile_last_bytes[e] <= mobile_dev'.bytes[e]
    <3> SUFFICES ASSUME NEW e \in Direction
                 PROVE  mobile_last_bytes[e] <= mobile_dev'.bytes[e]
      OBVIOUS
    <3>1. \A a, b, c \in Int : a <= b /\ b <= c => a <= c
      OBVIOUS
    <3> QED
      BY <1>0, <2>3, <2>5, <3>1 DEF CounterOrder
  <2> QED
    BY <2>4, <2>6 DEF CounterOrder
<1>2. CASE Poll
  <2>1. mobile_dev' = mobile_dev
    BY <1>2 DEF Poll
  <2>2. mobile_last_bytes' \in {mobile_last_bytes, mobile_dev.bytes}
    BY <1>2 DEF Poll, update_mobile_state, UpdateReadFails, UpdateBaseline,
       UpdateActivity, UpdateQuiet, Stored, estimate
  <2> QED
    BY <1>0, <2>1, <2>2 DEF CounterOrder
<1>3. CASE ResetStats
  <2>1. mobile_dev' \in {mobile_dev, [mobile_dev EXCEPT !.bytes = NoCount]}
    BY <1>3 DEF ResetStats
  <2>2. mobile_last_bytes' = Unsampled
    BY <1>3 DEF ResetStats
  <2>3. mobile_dev'.up /\ \A e \in Direction : -1 <= mobile_dev'.bytes[e]
    <3>1. CASE mobile_dev' = mobile_dev
      BY <1>0, <3>1
    <3>2. CASE mobile_dev' = [mobile_dev EXCEPT !.bytes = NoCount]
      BY <1>0, <3>2 DEF NoCount
    <3> QED
      BY <2>1, <3>1, <3>2
  <2> QED
    BY <2>2, <2>3 DEF CounterOrder, Unsampled
<1>4. CASE UNCHANGED <<mobile_dev, mobile_last_bytes>>
  BY <1>4 DEF CounterOrder
<1> QED
  BY <1>0, <1>1, <1>2, <1>3, <1>4 DEF MobileNext, Tick, DevDown, DevUp, Horizon,
     estimate, mobilevars

\* On an interface that does not restart, a timeout never hides traffic.
THEOREM SeenBeforeDemotion ==
    ASSUME ~IFACE_RESTARTS
    PROVE  MobileSpec => NoDemotionOverUnseenTraffic
<1> DEFINE Seen ==
       Poll /\ mobile_state # "IDLE" /\ mobile_state' = Demoted(mobile_state) =>
          mobile_last_bytes = mobile_dev.bytes
<1>1. TInv /\ TailOrder /\ CounterOrder /\ [MobileNext]_mobilevars => [Seen]_mobilevars
  <2> SUFFICES ASSUME TInv, TailOrder, CounterOrder, Poll,
                      mobile_state # "IDLE", mobile_state' = Demoted(mobile_state)
               PROVE  mobile_last_bytes = mobile_dev.bytes
    OBVIOUS
  <2>0. mobile_state \in {"FACH", "DCH"} /\ mobile_state' # mobile_state
    BY DEF TInv, TypeOK, MobileState, Demoted
  <2>1. UpdateQuiet
    BY <2>0 DEF Poll, update_mobile_state, UpdateReadFails, UpdateBaseline,
       UpdateActivity, Promoted, Demoted, estimate
  <2>2. TimedOut /\ ~Sampled
    BY <2>0, <2>1 DEF UpdateQuiet
  <2>3. HasElapsedSecond(now - last_mobile_sample_time)
    <3>1. /\ now \in Nat /\ last_mobile_activity \in Nat
          /\ last_mobile_sample_time \in Nat
          /\ InactivityTimer(mobile_state) \in Nat
          /\ InactivityTimer(mobile_state) >= SECOND
      BY ConstantTypes DEF TInv, TypeOK, InactivityTimer
    <3>2. /\ last_mobile_activity >= last_mobile_sample_time
          /\ now - last_mobile_activity >= InactivityTimer(mobile_state)
      BY <2>2 DEF TimedOut, TailOrder
    <3> QED
      BY <3>1, <3>2, ConstantTypes DEF HasElapsedSecond
  <2>4. /\ mobile_last_bytes["DOWN"] # -1
        /\ mobile_dev.bytes \in [Direction -> Nat]
        /\ mobile_last_bytes \in [Direction -> Nat]
    BY <2>0 DEF TInv, TypeOK, TailOrder, Unsampled, Direction
  <2>5. \A d \in Direction : mobile_last_bytes[d] = mobile_dev.bytes[d]
    BY <2>2, <2>3, <2>4 DEF Sampled, CounterOrder
  <2> QED
    BY <2>4, <2>5
<1>2. MobileInit => TailOrder
  BY DEF MobileInit, TailOrder
<1>3. TInv /\ CounterOrder /\ [MobileNext]_mobilevars => CounterOrder'
  BY CounterOrderNext
<1>4. MobileInit => CounterOrder
  BY CounterOrderInit
<1> QED
  BY <1>1, <1>2, <1>3, <1>4, TInvInit, TInvNext, TailOrderNext, PTL
  DEF MobileSpec, NoDemotionOverUnseenTraffic
-----------------------------------------------------------------------------
(* An interface that never restarts: no negative sample.                   *)

\* A sample is a difference of counters that only grow.
SampleNonNegative == \A d \in Direction : mobile_last_delta_bytes[d] >= 0

LEMMA SampleNonNegativeNext ==
    ASSUME TInv, CounterOrder, SampleNonNegative, [MobileNext]_mobilevars
    PROVE  SampleNonNegative'
<1>1. /\ \A d \in Direction : NoCount[d] = 0
      /\ \A d \in Direction : Delta[d] >= 0
  <2>1. /\ \A d \in Direction : mobile_last_bytes[d] \in Int
        /\ \A d \in Direction : mobile_dev.bytes[d] \in Nat
    BY OperatorTypes DEF TInv, TypeOK
  <2> QED
    BY <2>1 DEF NoCount, Delta, CounterOrder
<1>2. mobile_last_delta_bytes' \in {mobile_last_delta_bytes, NoCount, Delta}
  BY DEF MobileNext, Tick, Transfer, DevDown, DevUp, Horizon, Poll, update_mobile_state,
     UpdateReadFails, UpdateBaseline, UpdateActivity, UpdateQuiet, QuietDelta,
     ResetStats, estimate, mobilevars
<1> QED
  BY <1>1, <1>2 DEF SampleNonNegative

\* A queue length whose counters and sample are of one moment is a count.
LEMMA QueueAddsUp ==
    ASSUME TInv, CounterOrder, SampleNonNegative
    PROVE  \A d \in Direction : QueueNow(d) \in Nat
<1> SUFFICES ASSUME NEW d \in Direction PROVE QueueNow(d) \in Nat
  OBVIOUS
<1>1. /\ mobile_last_delta_bytes[d] \in Int /\ mobile_last_delta_bytes[d] >= 0
      /\ mobile_last_bytes[d] \in Int /\ mobile_dev.bytes[d] \in Nat
      /\ mobile_last_bytes[d] <= mobile_dev.bytes[d]
  BY OperatorTypes DEF TInv, TypeOK, CounterOrder, SampleNonNegative
<1>2. Delta[d] \in Nat
  BY <1>1 DEF Delta
<1> QED
  BY <1>1, <1>2 DEF QueueNow, get_mobile_queue_len, Delta
-----------------------------------------------------------------------------
(* The average idle time of FACH and DCH stays below the inactivity timer. *)

\* One more idle time of at most `timer` keeps the sum below its bound.
LEMMA SumBelow ==
    \A sum, idle, timer \in Nat, count \in Nat \ {0} :
        sum <= timer * (count - 1) /\ idle <= timer
            => sum + idle <= timer * ((count + 1) - 1)
<1> SUFFICES ASSUME NEW sum \in Nat, NEW idle \in Nat, NEW timer \in Nat,
                    NEW count \in Nat \ {0},
                    sum <= timer * (count - 1), idle <= timer
             PROVE  sum + idle <= timer * ((count + 1) - 1)
  OBVIOUS
<1>1. (count + 1) - 1 = (count - 1) + 1
  OBVIOUS
<1>2. timer * ((count - 1) + 1) = timer * (count - 1) + timer
  OBVIOUS
<1>3. timer * (count - 1) \in Int
  OBVIOUS
<1> QED
  BY <1>1, <1>2, <1>3

\* A poll ends in FACH or DCH only while the timer of that state is running.
LEMMA IdleBelowTimer ==
    ASSUME TInv, TailOrder, Poll, ~UpdateReadFails, mobile_state' # "IDLE"
    PROVE  /\ now - last_mobile_activity' \in Nat
           /\ now - last_mobile_activity' <= InactivityTimer(mobile_state')
<1>0. /\ now \in Nat /\ last_mobile_activity \in Nat
      /\ now - last_mobile_activity \in Nat
      /\ \A s \in MobileState : InactivityTimer(s) \in Nat
      /\ mobile_state \in MobileState
      /\ now - now = 0
  BY ConstantTypes DEF TInv, TypeOK, Stamps, InactivityTimer
<1>1. \A s : InactivityTimer(s) \in Nat
  BY ConstantTypes DEF InactivityTimer
<1>2. CASE last_mobile_activity' = now
  BY <1>0, <1>1, <1>2
<1>3. CASE UpdateBaseline
  BY <1>3 DEF UpdateBaseline, TailOrder
<1>4. CASE UpdateActivity
  BY <1>2, <1>4 DEF UpdateActivity
<1>5. CASE UpdateQuiet /\ last_mobile_activity' # now
  <2>1. ~TimedOut
    BY <1>0, <1>5 DEF UpdateQuiet, QuietActivity, TimedOut, Demoted, MobileState
  <2>2. last_mobile_activity' = last_mobile_activity /\ mobile_state' = mobile_state
    BY <1>5, <2>1 DEF UpdateQuiet, QuietActivity
  <2>3. now - last_mobile_activity <= InactivityTimer(mobile_state)
    BY <1>0, <1>1, <2>1, <2>2 DEF TimedOut
  <2> QED
    BY <1>0, <2>2, <2>3
<1> QED
  BY <1>2, <1>3, <1>4, <1>5 DEF Poll, update_mobile_state

LEMMA IdleAverageNext ==
    TInv /\ TailOrder /\ IdleAverageBelowTimer /\ [MobileNext]_mobilevars
        => IdleAverageBelowTimer'
<1> SUFFICES ASSUME TInv, TailOrder, IdleAverageBelowTimer, [MobileNext]_mobilevars
             PROVE  IdleAverageBelowTimer'
  OBVIOUS
<1>0. /\ idle_durations_per_state \in [MobileState -> Nat]
      /\ idle_duration_update_counts \in [MobileState -> Nat \ {0}]
      /\ \A s : InactivityTimer(s) \in Nat
  BY ConstantTypes DEF TInv, TypeOK, InactivityTimer
<1>1. CASE Poll /\ ~UpdateReadFails
  <2> SUFFICES ASSUME NEW s \in {"FACH", "DCH"}
               PROVE  idle_durations_per_state'[s]
                        <= InactivityTimer(s) * (idle_duration_update_counts'[s] - 1)
    BY DEF IdleAverageBelowTimer
  <2>0. s \in MobileState
    BY DEF MobileState
  <2>1. RecordIdleDuration
    BY <1>1 DEF Poll, update_mobile_state, UpdateBaseline, UpdateActivity, UpdateQuiet
  <2>2. CASE mobile_state' # s
    <3>1. /\ idle_durations_per_state'[s] = idle_durations_per_state[s]
          /\ idle_duration_update_counts'[s] = idle_duration_update_counts[s]
      BY <1>0, <2>0, <2>1, <2>2 DEF RecordIdleDuration
    <3> QED
      BY <3>1 DEF IdleAverageBelowTimer
  <2>3. CASE mobile_state' = s
    <3> DEFINE idle == now - last_mobile_activity'
    <3>1. idle \in Nat /\ idle <= InactivityTimer(s)
      BY <1>1, <2>3, IdleBelowTimer
    <3>2. /\ idle_durations_per_state'[s] = idle_durations_per_state[s] + idle
          /\ idle_duration_update_counts'[s] = idle_duration_update_counts[s] + 1
      BY <1>0, <2>0, <2>1, <2>3 DEF RecordIdleDuration
    <3>3. idle_durations_per_state[s]
            <= InactivityTimer(s) * (idle_duration_update_counts[s] - 1)
      BY DEF IdleAverageBelowTimer
    <3>4. /\ idle_durations_per_state[s] \in Nat
          /\ idle_duration_update_counts[s] \in Nat \ {0}
          /\ InactivityTimer(s) \in Nat
      BY <1>0, <2>0
    <3> HIDE DEF idle
    <3>5. idle_durations_per_state[s] + idle
            <= InactivityTimer(s) * ((idle_duration_update_counts[s] + 1) - 1)
      BY <3>1, <3>3, <3>4, SumBelow
    <3> QED
      BY <3>2, <3>5
  <2> QED
    BY <2>2, <2>3
<1>2. CASE ResetStats
  <2>1. \A s \in {"FACH", "DCH"} : /\ idle_durations_per_state'[s] = 0
                                   /\ idle_duration_update_counts'[s] = 1
    BY <1>2 DEF ResetStats, FreshCounts, MobileState
  <2>2. \A timer \in Nat : 0 <= timer * (1 - 1)
    OBVIOUS
  <2> QED
    BY <1>0, <2>1, <2>2 DEF IdleAverageBelowTimer
<1>3. CASE UNCHANGED idlevars
  BY <1>3 DEF idlevars, IdleAverageBelowTimer
<1> QED
  BY <1>1, <1>2, <1>3 DEF MobileNext, Tick, Transfer, DevDown, DevUp, Horizon, Poll,
     UpdateReadFails, mobilevars

LEMMA IdleAverageInit == MobileInit => IdleAverageBelowTimer
<1> SUFFICES ASSUME MobileInit PROVE IdleAverageBelowTimer
  OBVIOUS
<1>1. \A s : InactivityTimer(s) \in Nat
  BY ConstantTypes DEF InactivityTimer
<1>2. \A s \in {"FACH", "DCH"} : /\ idle_durations_per_state[s] = 0
                                 /\ idle_duration_update_counts[s] = 1
  BY DEF MobileInit, FreshCounts, MobileState
<1>3. \A timer \in Nat : 0 <= timer * (1 - 1)
  OBVIOUS
<1> QED
  BY <1>1, <1>2, <1>3 DEF IdleAverageBelowTimer

\* No recorded history makes the average idle time of FACH or DCH exceed its timer.
THEOREM IdleAverageBounded == MobileSpec => []IdleAverageBelowTimer
<1>1. MobileInit => TailOrder
  BY DEF MobileInit, TailOrder
<1> QED
  BY <1>1, TInvInit, TInvNext, TailOrderNext, IdleAverageInit, IdleAverageNext, PTL
  DEF MobileSpec
-----------------------------------------------------------------------------
(* Counters that can always be read: the tracker is never late.            *)

\* The interface neither restarts nor counts beyond what an int can hold.
FaultFree == ~IFACE_RESTARTS /\ MaxBytes <= INT_MAX

\* No counter passes the bound of the model.
Bounded == \A d \in Direction : mobile_dev.bytes[d] <= MaxBytes

LEMMA BoundedInit == MobileInit => Bounded
<1> SUFFICES ASSUME MobileInit PROVE Bounded
  OBVIOUS
<1>1. mobile_dev.bytes = NoCount
  <2>1. PICK u \in BOOLEAN : mobile_dev = [up |-> u, bytes |-> NoCount]
    BY DEF MobileInit
  <2> QED
    BY <2>1
<1>2. MaxBytes \in Nat
  BY TransferAssumption
<1> QED
  BY <1>1, <1>2 DEF Bounded, NoCount

LEMMA BoundedNext == TInv /\ Bounded /\ [MobileNext]_mobilevars => Bounded'
<1> SUFFICES ASSUME TInv, Bounded, [MobileNext]_mobilevars PROVE Bounded'
  OBVIOUS
<1>0. /\ MaxBytes \in Nat
      /\ mobile_dev \in [up : BOOLEAN, bytes : [Direction -> Nat]]
  BY TransferAssumption DEF TInv, TypeOK
<1>1. CASE Transfer
  <2>1. PICK d \in Direction, n \in Transfers :
           /\ mobile_dev.bytes[d] + n <= MaxBytes
           /\ mobile_dev' = [mobile_dev EXCEPT !.bytes[d] = @ + n]
    BY <1>1 DEF Transfer
  <2>2. mobile_dev'.bytes = [mobile_dev.bytes EXCEPT ![d] = @ + n]
    BY <1>0, <2>1
  <2>3. /\ mobile_dev'.bytes[d] = mobile_dev.bytes[d] + n
        /\ \A e \in Direction \ {d} : mobile_dev'.bytes[e] = mobile_dev.bytes[e]
    BY <1>0, <2>1, <2>2
  <2> QED
    BY <2>1, <2>3 DEF Bounded
<1>2. CASE mobile_dev'.bytes = NoCount
  BY <1>0, <1>2 DEF Bounded, NoCount
<1>3. CASE mobile_dev'.bytes = mobile_dev.bytes
  BY <1>3 DEF Bounded
<1>4. CASE DevDown \/ DevUp
  BY <1>0, <1>2, <1>3, <1>4 DEF DevDown, DevUp
<1>5. CASE ResetStats
  BY <1>0, <1>2, <1>3, <1>5 DEF ResetStats
<1> QED
  BY <1>1, <1>3, <1>4, <1>5 DEF MobileNext, Tick, Poll, Horizon, mobilevars

LEMMA AlwaysReadable ==
    ASSUME FaultFree, TInv, CounterOrder, Bounded
    PROVE  CanRead
<1>1. /\ MaxBytes \in Nat /\ INT_MAX \in Nat /\ MaxBytes <= INT_MAX
      /\ \A d \in Direction : mobile_dev.bytes[d] \in Nat
  BY PlatformAssumption, TransferAssumption DEF FaultFree, TInv, TypeOK
<1>2. \A d \in Direction : mobile_dev.bytes[d] <= INT_MAX
  BY <1>1 DEF Bounded
<1> QED
  BY <1>2 DEF CanRead, Readable, CounterOrder

\* A sample finds no queue before there is a baseline to compare with.
NoQueueUnsampled == mobile_last_bytes["DOWN"] = -1 => mobile_last_delta_bytes = NoCount

QInv == QueueIsFresh /\ NoQueueUnsampled

LEMMA QInvNext ==
    ASSUME FaultFree, TInv, CounterOrder, Bounded, QInv, [MobileNext]_mobilevars
    PROVE  QInv'
<1>1. CASE Poll
  <2>1. last_poll' = now /\ ~UpdateReadFails
    BY <1>1, AlwaysReadable DEF Poll, UpdateReadFails
  <2>2. CASE UpdateBaseline
    BY <2>2 DEF UpdateBaseline, QInv, QueueIsFresh, NoQueueUnsampled
  <2>3. CASE UpdateActivity
    <3>1. Stored["DOWN"] # -1
      BY OperatorTypes DEF TInv, Direction
    <3> QED
      BY <2>1, <2>3, <3>1 DEF UpdateActivity, QInv, QueueIsFresh, NoQueueUnsampled
  <2>4. CASE UpdateQuiet
    BY <2>4 DEF UpdateQuiet, QuietDelta, QInv, QueueIsFresh, NoQueueUnsampled, NoCount
  <2> QED
    BY <1>1, <2>1, <2>2, <2>3, <2>4 DEF Poll, update_mobile_state
<1>2. CASE ResetStats
  BY <1>2 DEF ResetStats, QInv, QueueIsFresh, NoQueueUnsampled, NoCount
<1>3. CASE UNCHANGED <<estimate, last_poll>>
  BY <1>3 DEF estimate, QInv, QueueIsFresh, NoQueueUnsampled, NoCount
<1> QED
  BY <1>1, <1>2, <1>3 DEF MobileNext, Tick, Transfer, DevDown, DevUp, Horizon,
     mobilevars

\* While the counters can be read, the queue estimate is that of the last poll.
THEOREM QueueFresh ==
    ASSUME FaultFree
    PROVE  MobileSpec => []QueueIsFresh
<1>1. MobileInit => QInv
  BY DEF MobileInit, QInv, QueueIsFresh, NoQueueUnsampled
<1>2. TInv /\ CounterOrder /\ [MobileNext]_mobilevars => CounterOrder'
  BY CounterOrderNext DEF FaultFree
<1>3. MobileInit => CounterOrder
  BY CounterOrderInit DEF FaultFree
<1>4. TInv /\ CounterOrder /\ Bounded /\ QInv /\ [MobileNext]_mobilevars => QInv'
  BY QInvNext
<1>5. QInv => QueueIsFresh
  BY DEF QInv
<1> QED
  BY <1>1, <1>2, <1>3, <1>4, <1>5, BoundedInit, BoundedNext, TInvInit, TInvNext, PTL
  DEF MobileSpec
-----------------------------------------------------------------------------
(* Silence is noticed in time.                                             *)

\* There is a baseline, and the interface has carried bytes since the last sample.
Unseen == mobile_last_bytes["DOWN"] # -1 /\ mobile_dev.bytes # mobile_last_bytes

\* How late the tracker can be: traffic a poll has left unseen came within a second
\* of the last sample; the last poll left no timer expired; and activity is noticed
\* within a second and a poll of the traffic that caused it.
Prompt ==
    /\ Unseen => last_mobile_sample_time <= last_traffic
    /\ Unseen /\ last_traffic < last_poll => last_poll < last_mobile_sample_time + SECOND
    /\ mobile_state = "DCH" =>
          /\ last_mobile_activity <= last_traffic + SECOND + MaxPollGap
          /\ last_poll < last_mobile_activity + MOBILE_DCH_INACTIVITY_TIMER
    /\ mobile_state = "FACH" =>
          /\ last_mobile_activity <= last_traffic + SECOND + MaxPollGap
                                     + MOBILE_DCH_INACTIVITY_TIMER + MaxPollGap
          /\ last_poll < last_mobile_activity + MOBILE_FACH_INACTIVITY_TIMER
    /\ now <= last_poll + MaxPollGap

LEMMA PromptTypes ==
    ASSUME TInv
    PROVE  /\ now \in Nat /\ last_poll \in Nat /\ last_traffic \in Nat
           /\ last_mobile_activity \in Nat /\ last_mobile_sample_time \in Nat
           /\ last_mobile_sample_time <= now /\ last_mobile_activity <= now
           /\ last_poll <= now /\ last_traffic <= now
           /\ MaxPollGap \in Nat /\ MaxPollGap > 0
           /\ mobile_state \in MobileState
  BY PlatformAssumption DEF TInv, TypeOK, Stamps

\* A poll that finds nothing new.
LEMMA PromptQuiet ==
    ASSUME TInv, TailOrder, CounterOrder, Prompt, Poll, UpdateQuiet
    PROVE  Prompt'
<1> USE PromptTypes, ConstantTypes
<1>0. /\ now' = now /\ last_poll' = now /\ last_traffic' = last_traffic
      /\ mobile_dev' = mobile_dev /\ mobile_last_bytes' = mobile_last_bytes
      /\ last_mobile_sample_time' = last_mobile_sample_time
  BY DEF Poll, UpdateQuiet
<1>1. Unseen => now < last_mobile_sample_time + SECOND
  <2> SUFFICES ASSUME Unseen PROVE now < last_mobile_sample_time + SECOND
    OBVIOUS
  <2>1. /\ mobile_last_bytes \in [Direction -> Nat]
        /\ mobile_dev.bytes \in [Direction -> Nat]
    BY DEF Unseen, TInv, TypeOK, Unsampled, Direction
  <2>2. \E d \in Direction : mobile_dev.bytes[d] # mobile_last_bytes[d]
    BY <2>1 DEF Unseen
  <2>3. \E d \in Direction : mobile_dev.bytes[d] > mobile_last_bytes[d]
    BY <2>1, <2>2 DEF CounterOrder
  <2>4. ~HasElapsedSecond(now - last_mobile_sample_time)
    BY <2>3 DEF UpdateQuiet, Sampled
  <2> QED
    BY <2>4 DEF HasElapsedSecond
<1>2. Unseen' <=> Unseen
  BY <1>0 DEF Unseen
<1>3. CASE ~TimedOut
  <2>1. /\ mobile_state' = mobile_state
        /\ last_mobile_activity' = last_mobile_activity
    BY <1>3 DEF UpdateQuiet, QuietActivity
  <2>2. /\ mobile_state = "DCH" => now < last_mobile_activity + MOBILE_DCH_INACTIVITY_TIMER
        /\ mobile_state = "FACH" => now < last_mobile_activity + MOBILE_FACH_INACTIVITY_TIMER
    BY <1>3 DEF TimedOut, InactivityTimer
  <2> QED
    BY <1>0, <1>1, <1>2, <2>1, <2>2 DEF Prompt
<1>4. CASE TimedOut /\ mobile_state = "DCH"
  <2>1. mobile_state' = "FACH" /\ last_mobile_activity' = now
    BY <1>4 DEF UpdateQuiet, QuietActivity, Demoted
  <2>2. now <= last_traffic + SECOND + MaxPollGap + MOBILE_DCH_INACTIVITY_TIMER + MaxPollGap
    BY <1>4 DEF Prompt
  <2>3. now < now + MOBILE_FACH_INACTIVITY_TIMER
    OBVIOUS
  <2> QED
    BY <1>0, <1>1, <1>2, <2>1, <2>2, <2>3 DEF Prompt
<1>5. CASE TimedOut /\ mobile_state = "FACH"
  <2>1. mobile_state' = "IDLE"
    BY <1>5 DEF UpdateQuiet, Demoted
  <2> QED
    BY <1>0, <1>1, <1>2, <2>1 DEF Prompt
<1> QED
  BY <1>3, <1>4, <1>5 DEF TimedOut, MobileState

\* A poll that finds activity.
LEMMA PromptActivity ==
    ASSUME TInv, CounterOrder, Prompt, Poll, UpdateActivity
    PROVE  Prompt'
<1> USE PromptTypes, ConstantTypes
<1>0. /\ now' = now /\ last_poll' = now /\ last_traffic' = last_traffic
      /\ last_mobile_activity' = now
      /\ mobile_last_bytes' = mobile_dev.bytes /\ mobile_dev' = mobile_dev
  BY DEF Poll, UpdateActivity, Stored
<1>1. ~Unseen'
  BY <1>0 DEF Unseen
<1>2. Unseen
  <2>1. \E d \in Direction : mobile_dev.bytes[d] > mobile_last_bytes[d]
    BY DEF UpdateActivity, Sampled
  <2>2. \A n \in Int : ~(n > n)
    OBVIOUS
  <2>3. \A d \in Direction : mobile_last_bytes[d] \in Int
    BY OperatorTypes DEF TInv
  <2> QED
    BY <2>1, <2>2, <2>3 DEF Unseen, UpdateActivity
<1>3. now <= last_traffic + SECOND + MaxPollGap
  BY <1>2 DEF Prompt
<1>4. now <= last_traffic + SECOND + MaxPollGap + MOBILE_DCH_INACTIVITY_TIMER + MaxPollGap
  BY <1>3
<1>5. /\ now < now + MOBILE_DCH_INACTIVITY_TIMER
      /\ now < now + MOBILE_FACH_INACTIVITY_TIMER
      /\ now <= now + MaxPollGap
  OBVIOUS
<1> QED
  BY <1>0, <1>1, <1>3, <1>4, <1>5 DEF Prompt

LEMMA PromptNext ==
    ASSUME FaultFree, TInv, TailOrder, CounterOrder, Bounded, Prompt,
           [MobileNext]_mobilevars
    PROVE  Prompt'
<1> USE PromptTypes, ConstantTypes
<1>1. CASE Tick
  <2>1. /\ now' = now + 1 /\ now + 1 <= last_poll + MaxPollGap
        /\ UNCHANGED <<mobile_dev, estimate, last_poll, last_traffic>>
    BY <1>1 DEF Tick
  <2> QED
    BY <2>1 DEF Prompt, Unseen, estimate
<1>2. CASE Transfer
  <2>1. /\ last_traffic' = now /\ now' = now
        /\ UNCHANGED <<estimate, last_poll>>
    BY <1>2 DEF Transfer
  <2>2. /\ last_traffic + SECOND + MaxPollGap <= now + SECOND + MaxPollGap
        /\ ~(now < last_poll)
    OBVIOUS
  <2> QED
    BY <2>1, <2>2 DEF Prompt, Unseen, estimate
<1>3. CASE Poll
  <2>1. CASE UpdateBaseline
    <3>1. /\ mobile_state = "IDLE" /\ mobile_state' = "IDLE"
      BY <2>1 DEF UpdateBaseline, TailOrder
    <3>2. ~Unseen'
      BY <1>3, <2>1 DEF Poll, UpdateBaseline, Stored, Unseen
    <3>3. now' = now /\ last_poll' = now /\ now <= now + MaxPollGap
      BY <1>3 DEF Poll
    <3> QED
      BY <3>1, <3>2, <3>3 DEF Prompt
  <2>2. ~UpdateReadFails
    BY AlwaysReadable DEF UpdateReadFails
  <2> QED
    BY <1>3, <2>1, <2>2, PromptQuiet, PromptActivity DEF Poll, update_mobile_state
<1>4. CASE ResetStats
  <2>1. /\ mobile_state' = "IDLE" /\ mobile_last_bytes' = Unsampled
        /\ now' = now /\ last_poll' = now /\ now <= now + MaxPollGap
    BY <1>4 DEF ResetStats
  <2>2. ~Unseen'
    BY <2>1 DEF Unseen, Unsampled, Direction
  <2> QED
    BY <2>1, <2>2 DEF Prompt
<1>5. CASE UNCHANGED mobilevars
  BY <1>5 DEF mobilevars, estimate, Prompt, Unseen
<1>6. ~DevDown /\ ~DevUp
  BY DEF DevDown, DevUp, FaultFree, CounterOrder
<1> QED
  BY <1>1, <1>2, <1>3, <1>4, <1>5, <1>6 DEF MobileNext, Horizon

LEMMA PromptBound ==
    ASSUME TInv, Prompt
    PROVE  TailBounded
<1> USE PromptTypes, ConstantTypes
<1>1. CASE mobile_state = "DCH"
  BY <1>1 DEF Prompt, TailBounded
<1>2. CASE mobile_state = "FACH"
  BY <1>2 DEF Prompt, TailBounded
<1> QED
  BY <1>1, <1>2 DEF TailBounded, MobileState

\* While the counters can be read, a silent interface is known to be idle at most
\* one tail, one second and three polls after its last byte.
THEOREM SilenceIsNoticed ==
    ASSUME FaultFree
    PROVE  MobileSpec => []TailBounded
<1>1. MobileInit => TailOrder
  BY DEF MobileInit, TailOrder
<1>2. TInv /\ CounterOrder /\ [MobileNext]_mobilevars => CounterOrder'
  BY CounterOrderNext DEF FaultFree
<1>3. MobileInit => CounterOrder
  BY CounterOrderInit DEF FaultFree
<1>4. MobileInit => Prompt
  <2> SUFFICES ASSUME MobileInit PROVE Prompt
    OBVIOUS
  <2>1. mobile_state = "IDLE" /\ last_poll = now /\ mobile_last_bytes = Unsampled
    BY DEF MobileInit
  <2>2. TInv
    BY TInvInit
  <2>3. now <= now + MaxPollGap
    BY <2>2, PromptTypes
  <2> QED
    BY <2>1, <2>3 DEF Prompt, Unseen, Unsampled, Direction
<1>5. TInv /\ TailOrder /\ CounterOrder /\ Bounded /\ Prompt
        /\ [MobileNext]_mobilevars => Prompt'
  BY PromptNext
<1>6. TInv /\ Prompt => TailBounded
  BY PromptBound
<1> QED
  BY <1>1, <1>2, <1>3, <1>4, <1>5, <1>6, BoundedInit, BoundedNext, TInvInit, TInvNext,
     TailOrderNext, PTL
  DEF MobileSpec
=============================================================================
