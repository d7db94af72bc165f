---------------------------- MODULE EnergyQueries ----------------------------
(***************************************************************************)
(* The application asks the handset what a transfer over the cellular      *)
(* radio would cost, while polls and resets go on (libpowertutor.cpp):     *)
(* get_energy_computer(TYPE_MOBILE), which reads the queues, the state and *)
(* the idle time under three acquisitions of mobile_state_lock, the first  *)
(* of them after the counters were read outside of it; and                 *)
(* estimate_mobile_energy_cost_average, which takes it twice for each of   *)
(* the three states, and reads the clock each time it weighs one.          *)
(***************************************************************************)
EXTENDS MobileTracker

CONSTANTS
    QueryTimes,         \* environment: instants at which the application asks
    MaxQueryTime,       \* environment: longest time a query takes
    MOBILE_FACH_POWER, MOBILE_DCH_POWER, HDR_SIZE, SIZE_MAX,
    AverageTransfer     \* what the application asks the average estimate about

ASSUME QueryAssumption == QueryTimes \subseteq Nat /\ MaxQueryTime \in Nat

ASSUME AverageAssumption ==
    /\ {MOBILE_FACH_POWER, MOBILE_DCH_POWER, HDR_SIZE, SIZE_MAX} \subseteq Nat
    /\ AverageTransfer \in [datalen : Nat, bandwidth : Nat \ {0}, rtt : Nat]

VARIABLES
    query       \* the query under way, and what it has read so far

queriesvars == <<mobilevars, query>>

NoQuery == [at |-> "none"]

\* What a snapshot of the radio binds: the estimate from IDLE does not look at the
\* idle time.
Bound(state, idle_duration) ==
    IF state = "IDLE" THEN <<state, 0>> ELSE <<state, idle_duration>>
Moment == Bound(mobile_state, now - last_mobile_activity)

QueriesInit == MobileInit /\ query = NoQuery
-----------------------------------------------------------------------------
(* get_energy_computer                                                     *)

\* get_net_dev_stats, outside the lock.  (asked, expiring, sampled, since and
\* overtaken are history: what the answer would be now, the part of it the next poll
\* drops, whether there was a sample, and how many polls come before the lock: none,
\* one, or 2 for more.)
QueryReadCounters ==
    /\ query = NoQuery
    /\ now \in QueryTimes
    /\ query' = [at |-> "queues", counts |-> mobile_dev.bytes, readable |-> CanRead,
                 asked |-> [d \in Direction |-> QueueNow(d)],
                 expiring |-> mobile_last_delta_bytes,
                 sampled |-> mobile_last_bytes # Unsampled,
                 since |-> now, overtaken |-> 0]

\* The sample is the current one when the lock is held; the counters are not.
QueueAnswer(q) ==
    [d \in Direction |-> get_mobile_queue_len(d, q.readable, q.counts)]

\* The queues are bound; only what they were is of interest here.
QueryQueues ==
    /\ query.at = "queues"
    /\ query' = [at |-> "state", since |-> query.since]

\* (moments is history: the radio, at each moment from here on.)
QueryState ==
    /\ query.at = "state"
    /\ query' = [at |-> "idle", since |-> query.since, state |-> mobile_state,
                 moments |-> {Moment}]

\* The computer is bound; the application has it.
BoundMoment == Bound(query.state, now - last_mobile_activity)

QueryIdle ==
    /\ query.at = "idle"
    /\ query' = NoQuery

get_energy_computer ==
    /\ QueryReadCounters \/ QueryQueues \/ QueryState \/ QueryIdle
    /\ UNCHANGED mobilevars

-----------------------------------------------------------------------------
(* estimate_mobile_energy_cost_average.  The code computes in doubles until *)
(* the last conversion; the average idle time is a whole number of ticks    *)
(* here, rounded down, and a weight is kept as the fraction it is.          *)

Estimate == INSTANCE MobileEstimate WITH
    ON_HANDSET <- TRUE, Queues <- {0}, IdleDurations <- Nat,
    Datalens <- Nat, Bandwidths <- Nat \ {0}, Rtts <- Nat,
    computer <- query, answer <- query

average_idle_duration_for_state(s) ==
    idle_durations_per_state[s] \div idle_duration_update_counts[s]

CostFrom(s) ==
    Estimate!estimate_mobile_energy_cost_from_state(
        [old_state |-> s, idle_duration |-> average_idle_duration_for_state(s),
         queue_len |-> 0, ack_dir_queue_len |-> 0],
        AverageTransfer)

\* The time since the last change counts towards the state the radio is in, and
\* towards the whole.
CurrentStay == now - last_mobile_state_change
time_in_state(s) ==
    time_in_mobile_state[s] + IF s = mobile_state THEN CurrentStay ELSE 0

total_time_of_past_stays == TotalTime(time_in_mobile_state)
total_time == TotalTime(time_in_mobile_state) + CurrentStay

time_fraction_in_state(s) == [time |-> time_in_state(s), of |-> total_time]

\* The loop over the states.
NextState(s) == IF s = "IDLE" THEN "FACH" ELSE "DCH"

\* The application asks.  (reset is history: has there been one since?)
QueryAverage ==
    /\ query = NoQuery
    /\ now \in QueryTimes
    /\ query' = [at |-> "cost", state |-> "IDLE", since |-> now, reset |-> FALSE,
                 cost   |-> [s \in MobileState |-> 0],
                 weight |-> [s \in MobileState |-> [time |-> 0, of |-> 1]]]

\* average_idle_duration_for_state, and the estimate made of it outside the lock.
QueryCost ==
    /\ query.at = "cost"
    /\ query' = [query EXCEPT !.at = "weight", !.cost[query.state] = CostFrom(query.state)]

QueryWeight ==
    /\ query.at = "weight"
    /\ query' = [query EXCEPT !.at = IF query.state = "DCH" THEN "average" ELSE "cost",
                              !.state = NextState(query.state),
                              !.weight[query.state] = time_fraction_in_state(query.state)]

\* The sum of the three weighted costs, converted to int.
AverageAnswer(cost, weight) ==
    LET i == weight["IDLE"]  f == weight["FACH"]  d == weight["DCH"]
    IN  (cost["IDLE"] * i.time * f.of * d.of + cost["FACH"] * f.time * i.of * d.of
         + cost["DCH"] * d.time * i.of * f.of) \div (i.of * f.of * d.of)

QueryAnswered ==
    /\ query.at = "average"
    /\ query' = NoQuery

estimate_mobile_energy_cost_average ==
    /\ QueryAverage \/ QueryCost \/ QueryWeight \/ QueryAnswered
    /\ UNCHANGED mobilevars
-----------------------------------------------------------------------------
(* The rest of the world goes on while the query is under way.             *)

InTime == query # NoQuery => now' <= query.since + MaxQueryTime

\* The history of the query: a poll or a reset has overtaken it, the radio has been
\* at another moment, the statistics have been reset.
Watch(polls, reset) ==
    query' = CASE query.at = "queues" -> [query EXCEPT !.overtaken = IF @ = 2 THEN 2 ELSE @ + polls]
               [] query.at = "idle"   -> [query EXCEPT !.moments = @ \cup {Moment'}]
               [] query.at \in {"cost", "weight"} -> [query EXCEPT !.reset = @ \/ reset]
               [] OTHER -> query

QueriesNext ==
    \/ get_energy_computer
    \/ estimate_mobile_energy_cost_average
    \/ Tick /\ InTime /\ Watch(0, FALSE)
    \/ Transfer /\ Watch(0, FALSE)
    \/ DevDown /\ Watch(0, FALSE)
    \/ DevUp /\ Watch(0, FALSE)
    \/ Poll /\ Watch(1, FALSE)
    \/ ResetStats /\ Watch(1, TRUE)
    \/ Horizon /\ UNCHANGED query

QueriesSpec == QueriesInit /\ [][QueriesNext]_queriesvars
-----------------------------------------------------------------------------
(* Properties.                                                             *)

\* get_mobile_queue_len reads the counters before it takes the lock.  If a poll
\* overtakes it, the answer is still the one the counters gave, less at most the
\* bytes of the sample that the poll dropped: what the poll sampled and what the
\* stale counters lack cancel out, even if the interface restarts in between.
\* (Not if two polls overtake it, or the first sample after a reset.)
OvertakenQueueHolds ==
    [][QueryQueues /\ query.readable /\ query.sampled /\ query.overtaken <= 1
                   /\ mobile_last_bytes # Unsampled =>
          \A d \in Direction :
             QueueAnswer(query)[d] \in {query.asked[d], query.asked[d] - query.expiring[d]}
      ]_queriesvars

\* What network_state_test.cpp asserts ("Got downlink queue length", "Got uplink
\* queue length"), on an interface that does not restart: a queue length is never
\* negative, unless two polls (or a reset and its poll) come between the counters and
\* the lock, or the first sample after a reset does.  Even then it falls short of zero
\* by no more than the interface carried meanwhile.
QueueNonNegative ==
    [][QueryQueues =>
          \A d \in Direction :
             \/ QueueAnswer(query)[d] >= 0
             \/ /\ query.overtaken >= (IF query.sampled THEN 2 ELSE 1)
                /\ QueueAnswer(query)[d] >= query.counts[d] - mobile_dev.bytes[d]
      ]_queriesvars

\* The average estimate lies between the cheapest and the dearest of the three costs
\* it weighs, to within the share of the time since the reset that went by while it
\* was asked: polls that change the state between two of its readings take nothing
\* from one weight that the others do not get.  (Not across a reset.)
AverageWithinExtremes ==
    query.at = "average" /\ ~query.reset =>
        LET average == AverageAnswer(query.cost, query.weight)
            first   == query.weight["IDLE"].of
            last    == query.weight["DCH"].of
        IN  /\ \E s \in MobileState : query.cost[s] * first < (average + 1) * last
            /\ \E s \in MobileState : average * first <= query.cost[s] * last

\* The header's "Binds the current energy state to all invocations of this
\* functor": the state and the idle time of a computer are those of one moment.
BoundToOneMoment ==
    [][QueryIdle => BoundMoment \in query.moments]_queriesvars
=============================================================================
