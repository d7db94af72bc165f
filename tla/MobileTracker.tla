--------------------------- MODULE MobileTracker ---------------------------
(***************************************************************************)
(* The handset's tracker of its cellular radio (libpowertutor.cpp): the    *)
(* mobile_* statics, update_mobile_state and the part of reset_stats that  *)
(* touches them, over the interface whose byte counters it polls.          *)
(*                                                                         *)
(* One poll is one step, and so is a reset.  A poll holds                  *)
(* mobile_state_lock while it touches these statics, and takes no time:    *)
(* the gettimeofday calls inside it return the same instant.  On the       *)
(* handset the polls are those of NetworkStatsUpdateThread and the one a   *)
(* reset ends with; reset_stats takes a lock of its own, and what the two  *)
(* threads may do to each other inside these steps is not modelled here.   *)
(***************************************************************************)
EXTENDS Platform

CONSTANTS
    Transfers,      \* environment: the sizes of a transfer
    MaxBytes        \* bound of the model: the counters stop here

ASSUME TransferAssumption ==
    /\ Transfers \subseteq Nat \ {0}
    /\ MaxBytes \in Nat

VARIABLES
    now,                            \* mocktime_gettimeofday
    mobile_dev,                     \* the interface: is it listed, its byte counters
    mobile_state,
    last_mobile_activity,
    last_mobile_sample_time,
    last_mobile_state_change,
    mobile_last_bytes,              \* counters at the last sample, -1 before the first
    mobile_last_delta_bytes,        \* bytes of the last sample, the "queue"
    time_in_mobile_state,
    idle_durations_per_state,
    idle_duration_update_counts,
    last_reset,
    last_poll,                      \* history: when the last poll ran
    last_traffic                    \* history: when the interface last carried a byte

estimate == <<mobile_state, last_mobile_activity, last_mobile_sample_time,
              last_mobile_state_change, mobile_last_bytes,
              mobile_last_delta_bytes, time_in_mobile_state>>
idlevars == <<idle_durations_per_state, idle_duration_update_counts>>
mobilevars == <<now, mobile_dev, estimate, idlevars, last_reset, last_poll,
                last_traffic>>
-----------------------------------------------------------------------------
CanRead == Readable(mobile_dev.up, mobile_dev.bytes)

\* "start idle with a non-zero value so that the state weight calculation
\* starts as 100% idle"
FreshTimes == [s \in MobileState |-> IF s = "IDLE" THEN SECOND ELSE 0]

\* reset_stats ends with an update.  That poll comes zero seconds after the
\* sample time just set, so all it does is to count one (zero) idle duration.
FreshCounts == [s \in MobileState |-> IF s = "IDLE" /\ CanRead THEN 2 ELSE 1]

\* The library is loaded: its constructor has run reset_stats.
MobileInit ==
    /\ now = StartTime
    /\ mobile_dev \in [up : IF IFACE_RESTARTS THEN BOOLEAN ELSE {TRUE},
                       bytes : {NoCount}]
    /\ mobile_state = "IDLE"
    /\ last_mobile_activity = now
    /\ last_mobile_sample_time = now
    /\ last_mobile_state_change = now
    /\ mobile_last_bytes = Unsampled
    /\ mobile_last_delta_bytes = NoCount
    /\ time_in_mobile_state = FreshTimes
    /\ idle_durations_per_state = [s \in MobileState |-> 0]
    /\ idle_duration_update_counts = FreshCounts
    /\ last_reset = now
    /\ last_poll = now
    /\ last_traffic = now
-----------------------------------------------------------------------------
(* The environment: the clock and the interface.                           *)

Tick ==
    /\ now < MaxTime
    /\ now - last_poll < MaxPollGap
    /\ now' = now + 1
    /\ UNCHANGED <<mobile_dev, estimate, idlevars, last_reset, last_poll, last_traffic>>

Transfer ==
    /\ mobile_dev.up
    /\ \E d \in Direction, n \in Transfers :
          /\ mobile_dev.bytes[d] + n <= MaxBytes
          /\ mobile_dev' = [mobile_dev EXCEPT !.bytes[d] = @ + n]
    /\ last_traffic' = now
    /\ UNCHANGED <<now, estimate, idlevars, last_reset, last_poll>>

DevDown ==
    /\ IFACE_RESTARTS
    /\ mobile_dev.up
    /\ mobile_dev' = [mobile_dev EXCEPT !.up = FALSE]
    /\ UNCHANGED <<now, estimate, idlevars, last_reset, last_poll, last_traffic>>

DevUp ==
    /\ ~mobile_dev.up
    /\ mobile_dev' = [up |-> TRUE, bytes |-> NoCount]
    /\ UNCHANGED <<now, estimate, idlevars, last_reset, last_poll, last_traffic>>
-----------------------------------------------------------------------------
(* update_mobile_state.  A definition named for a part of a rule (DownOnly, *)
(* InDCH, Kept, ...) is a plausible slip of the definition that follows it, *)
(* used only to see that the properties notice it.                          *)

\* There is activity to sample: a second has passed and a counter has grown.
SampledDownOnly ==
    /\ HasElapsedSecond(now - last_mobile_sample_time)
    /\ mobile_dev.bytes["DOWN"] > mobile_last_bytes["DOWN"]
Sampled ==
    /\ HasElapsedSecond(now - last_mobile_sample_time)
    /\ \E d \in Direction : mobile_dev.bytes[d] > mobile_last_bytes[d]

\* The counters a sample remembers.
StoredDownOnly == [mobile_last_bytes EXCEPT !["DOWN"] = mobile_dev.bytes["DOWN"]]
Stored == mobile_dev.bytes

DeltaBackwards == [d \in Direction |-> mobile_last_bytes[d] - mobile_dev.bytes[d]]
Delta == [d \in Direction |-> mobile_dev.bytes[d] - mobile_last_bytes[d]]

\* get_mobile_queue_len once it has the lock: the bytes of the last sample, and those
\* carried since according to the counters, which it read before it had the lock.
get_mobile_queue_len_since_sample(d, readable, bytes) ==
    IF readable /\ mobile_last_bytes["DOWN"] # -1
    THEN bytes[d] - mobile_last_bytes[d] ELSE 0
get_mobile_queue_len(d, readable, bytes) ==
    mobile_last_delta_bytes[d]
        + IF readable /\ mobile_last_bytes["DOWN"] # -1
          THEN bytes[d] - mobile_last_bytes[d] ELSE 0

\* Its answer if nothing comes between the counters and the lock.
QueueNow(d) == get_mobile_queue_len(d, CanRead, mobile_dev.bytes)

\* The state activity promotes the radio to.
OverThreshold == \E d \in Direction : Delta[d] >= get_dch_threshold(d)
PromotedByQueueAlone == IF OverThreshold THEN "DCH" ELSE "FACH"
Promoted == IF mobile_state = "DCH" \/ OverThreshold THEN "DCH" ELSE "FACH"

\* An inactivity timer has expired.
TimedOutInDCH ==
    /\ mobile_state = "DCH"
    /\ now - last_mobile_activity >= InactivityTimer(mobile_state)
TimedOut ==
    /\ mobile_state # "IDLE"
    /\ now - last_mobile_activity >= InactivityTimer(mobile_state)

\* What a poll without activity leaves of the queue estimate.
QuietDeltaKept == mobile_last_delta_bytes
QuietDelta == NoCount

\* The fall from DCH is marked as an activity, so that the FACH timer starts.
QuietActivityKept == last_mobile_activity
QuietActivity ==
    IF TimedOut /\ mobile_state = "DCH" THEN now ELSE last_mobile_activity

\* The total time_fraction_in_state divides by, before the current stay is added.
TotalTime(times) == times["IDLE"] + times["FACH"] + times["DCH"]

\* The time spent in a state is added up when the state is left.
AddTimeInState ==
    IF HasElapsedSecond(last_mobile_state_change)
    THEN [time_in_mobile_state EXCEPT
             ![mobile_state] = @ + (now - last_mobile_state_change)]
    ELSE time_in_mobile_state

RecordWithoutRestamp ==
    IF mobile_state' = mobile_state
    THEN UNCHANGED <<time_in_mobile_state, last_mobile_state_change>>
    ELSE /\ UNCHANGED last_mobile_state_change
         /\ time_in_mobile_state' = AddTimeInState
RecordStateChange ==
    IF mobile_state' = mobile_state
    THEN UNCHANGED <<time_in_mobile_state, last_mobile_state_change>>
    ELSE /\ last_mobile_state_change' = now
         /\ time_in_mobile_state' = AddTimeInState

\* The idle time the poll ends with is averaged into the state it ends in.
RecordStaleIdle ==
    /\ idle_durations_per_state' =
          [idle_durations_per_state EXCEPT
              ![mobile_state'] = @ + (now - last_mobile_activity)]
    /\ idle_duration_update_counts' =
          [idle_duration_update_counts EXCEPT ![mobile_state'] = @ + 1]
RecordIdleDuration ==
    /\ idle_durations_per_state' =
          [idle_durations_per_state EXCEPT
              ![mobile_state'] = @ + (now - last_mobile_activity')]
    /\ idle_duration_update_counts' =
          [idle_duration_update_counts EXCEPT ![mobile_state'] = @ + 1]

\* The counters cannot be read: the poll does nothing, not even time out.
UpdateReadFails ==
    /\ ~CanRead
    /\ UNCHANGED <<estimate, idlevars>>

\* The first sample after a reset only remembers the counters.
UpdateBaseline ==
    /\ CanRead /\ Sampled
    /\ mobile_last_bytes["DOWN"] = -1
    /\ mobile_last_bytes' = Stored
    /\ last_mobile_sample_time' = now
    /\ UNCHANGED <<mobile_state, last_mobile_activity, last_mobile_state_change,
                   mobile_last_delta_bytes, time_in_mobile_state>>
    /\ RecordIdleDuration

\* Activity: the radio is promoted by the bytes seen since the last sample.
UpdateActivity ==
    /\ CanRead /\ Sampled
    /\ mobile_last_bytes["DOWN"] # -1
    /\ mobile_last_bytes' = Stored
    /\ last_mobile_sample_time' = now
    /\ last_mobile_activity' = now
    /\ mobile_last_delta_bytes' = Delta
    /\ mobile_state' = Promoted
    /\ RecordStateChange
    /\ RecordIdleDuration

\* No activity: the queues are empty, and an inactivity timer may expire.
UpdateQuiet ==
    /\ CanRead /\ ~Sampled
    /\ mobile_last_delta_bytes' = QuietDelta
    /\ mobile_state' = IF TimedOut THEN Demoted(mobile_state) ELSE mobile_state
    /\ last_mobile_activity' = QuietActivity
    /\ UNCHANGED <<mobile_last_bytes, last_mobile_sample_time>>
    /\ RecordStateChange
    /\ RecordIdleDuration

\* The part of a poll that concerns the cellular radio, for the modules that
\* compose this one.
update_mobile_state ==
    \/ UpdateReadFails
    \/ UpdateBaseline
    \/ UpdateActivity
    \/ UpdateQuiet

Poll ==
    /\ now - last_poll >= MinPollGap
    /\ update_mobile_state
    /\ last_poll' = now
    /\ UNCHANGED <<now, mobile_dev, last_reset, last_traffic>>

\* reset_stats, with the poll it makes before it returns.
ResetStats ==
    /\ now \in ResetTimes
    /\ mobile_dev' = IF SIMULATION_BUILD
                     THEN [mobile_dev EXCEPT !.bytes = NoCount]
                     ELSE mobile_dev
    /\ mobile_state' = "IDLE"
    /\ last_mobile_activity' = now
    /\ last_mobile_sample_time' = now
    /\ last_mobile_state_change' = now
    /\ mobile_last_bytes' = Unsampled
    /\ mobile_last_delta_bytes' = NoCount
    /\ time_in_mobile_state' = FreshTimes
    /\ idle_durations_per_state' = [s \in MobileState |-> 0]
    /\ idle_duration_update_counts' = FreshCounts
    /\ last_reset' = now
    /\ last_poll' = now
    /\ UNCHANGED <<now, last_traffic>>

\* The bound on the clock is reached; nothing else may stop the tracker.
Horizon ==
    /\ now = MaxTime
    /\ UNCHANGED mobilevars

MobileNext ==
    \/ Tick \/ Transfer \/ DevDown \/ DevUp \/ Horizon
    \/ Poll
    \/ ResetStats

MobileSpec == MobileInit /\ [][MobileNext]_mobilevars
-----------------------------------------------------------------------------
(* Properties.                                                             *)

\* Every static keeps its type: stamps are instants already past, the counters
\* of the last sample are both -1 or both counts.
TypeOK ==
    /\ now \in Nat
    /\ mobile_dev \in [up : BOOLEAN, bytes : [Direction -> Nat]]
    /\ mobile_state \in MobileState
    /\ {last_mobile_activity, last_mobile_sample_time, last_mobile_state_change,
        last_reset, last_poll, last_traffic} \subseteq Nat
    /\ mobile_last_bytes \in [Direction -> Nat] \cup {Unsampled}
    /\ mobile_last_delta_bytes \in [Direction -> Int]
    /\ time_in_mobile_state \in [MobileState -> Nat]
    /\ idle_durations_per_state \in [MobileState -> Nat]
    /\ idle_duration_update_counts \in [MobileState -> Nat \ {0}]

\* The times update_mobile_state adds up per state, with the stay in the current
\* state that time_fraction_in_state adds, are exactly the time since the reset
\* (and the second credited to IDLE), whatever failed polls and interface restarts
\* lie in between: the state fractions of any one moment sum to 1.
TimeAccounted ==
    TotalTime(time_in_mobile_state) + (now - last_mobile_state_change)
        = SECOND + (now - last_reset)

\* The radio leaves FACH or DCH downwards one state at a time, and only after it
\* has been in that state for the whole inactivity timer: the comment "so that
\* we wait for the full FACH timeout before going to IDLE".
FullTail ==
    [][Poll /\ mobile_state # "IDLE" /\ mobile_state' # mobile_state =>
          \/ mobile_state' = "DCH"
          \/ /\ mobile_state' = Demoted(mobile_state)
             /\ now - last_mobile_state_change >= InactivityTimer(mobile_state)
      ]_mobilevars

\* A timeout never demotes the radio while the interface has carried bytes that
\* no sample has seen: samples are a second apart and timers are longer, so by
\* the time one expires the quiet has been checked.
NoDemotionOverUnseenTraffic ==
    [][Poll /\ mobile_state # "IDLE" /\ mobile_state' = Demoted(mobile_state) =>
          mobile_last_bytes = mobile_dev.bytes]_mobilevars

\* The queue estimate get_mobile_queue_len starts from is never older than the
\* last poll: bytes sampled once are gone at the next poll.
QueueIsFresh ==
    mobile_last_delta_bytes # NoCount =>
        /\ last_mobile_activity = last_poll
        /\ last_mobile_sample_time = last_poll

\* The idle time averaged for FACH or DCH stays below that state's inactivity
\* timer, so the average estimate never charges more than one tail.
IdleAverageBelowTimer ==
    \A s \in {"FACH", "DCH"} :
        idle_durations_per_state[s]
            <= InactivityTimer(s) * (idle_duration_update_counts[s] - 1)

\* Once the interface has been silent for a whole tail (and the delays of one
\* sample and three polls) the radio is known to be idle.
TailBounded ==
    now - last_traffic > SECOND + MOBILE_DCH_INACTIVITY_TIMER
                         + MOBILE_FACH_INACTIVITY_TIMER + 3 * MaxPollGap
    => mobile_state = "IDLE"

\* The tracker keeps the promise of RadioTail.
Tail == INSTANCE RadioTail WITH state <- mobile_state,
                                idle_since <- last_mobile_activity
ImplementsRadioTail == Tail!TailSpec
=============================================================================
