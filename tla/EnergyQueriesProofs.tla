------------------------ MODULE EnergyQueriesProofs ------------------------
(***************************************************************************)
(* Theorems about EnergyQueries: what a query overtaken by polls answers,  *)
(* and what the average estimate averages while polls change the radio     *)
(* between its readings, for every transfer, every schedule of polls and   *)
(* resets, and (but for the sign of an answer) every restart of the        *)
(* interface.                                                              *)
(***************************************************************************)
EXTENDS EnergyQueries, MobileTrackerProofs

(* The tracker runs as it runs alone; no query disturbs it.                *)

LEMMA TrackerStep == [QueriesNext]_queriesvars => [MobileNext]_mobilevars
BY DEF QueriesNext, get_energy_computer, estimate_mobile_energy_cost_average, Horizon,
   MobileNext, queriesvars

\* Every behaviour with queries is one of the tracker: what is proved of MobileSpec
\* holds while the application asks.
THEOREM QueriesRunTracker == QueriesSpec => MobileSpec
<1>1. QueriesInit => MobileInit
  BY DEF QueriesInit
<1> QED
  BY <1>1, TrackerStep, PTL DEF QueriesSpec, MobileSpec

\* What is known of the tracker at every moment of a query.
TrackerInv == TInv /\ TimeAccounted

LEMMA TrackerInvOfQueries ==
    /\ QueriesInit => TrackerInv
    /\ TrackerInv /\ [QueriesNext]_queriesvars => TrackerInv'
BY TInvInit, TInvNext, TimeAccountedInit, TimeAccountedNext, TrackerStep
   DEF QueriesInit, TrackerInv
-----------------------------------------------------------------------------
(* What a query has read so far.                                           *)

QueuesQuery == [at : {"queues"}, counts : [Direction -> Nat], readable : BOOLEAN,
                asked : [Direction -> Int], expiring : [Direction -> Int],
                sampled : BOOLEAN, since : Nat, overtaken : 0..2]
StateQuery  == [at : {"state"}, since : Nat]
IdleQuery   == [at : {"idle"}, since : Nat, state : MobileState,
                moments : SUBSET (MobileState \X Nat)]

Weight == [time : Nat, of : Nat \ {0}]
AverageQuery == [at : {"cost", "weight", "average"}, state : MobileState, since : Nat,
                 reset : BOOLEAN, cost : [MobileState -> Nat],
                 weight : [MobileState -> Weight]]

QueryType ==
    \/ query = NoQuery
    \/ query \in QueuesQuery
    \/ query \in StateQuery
    \/ query \in IdleQuery
    \/ query \in AverageQuery

\* Which of these a query is, by the step it is at.
LEMMA QueryKinds ==
    ASSUME QueryType
    PROVE  /\ query.at = "queues" => query \in QueuesQuery
           /\ query.at = "state" => query \in StateQuery
           /\ query.at = "idle" => query \in IdleQuery
           /\ query.at \in {"cost", "weight", "average"} => query \in AverageQuery
BY DEF QueryType, NoQuery, QueuesQuery, StateQuery, IdleQuery, AverageQuery

\* The values of the tracker that a query computes with.
LEMMA TrackerTypes ==
    ASSUME TInv
    PROVE  /\ now \in Nat /\ mobile_state \in MobileState
           /\ now - last_mobile_activity \in Nat
           /\ mobile_dev.bytes \in [Direction -> Nat]
           /\ mobile_last_delta_bytes \in [Direction -> Int]
           /\ \A d \in Direction : mobile_last_bytes[d] \in Int
           /\ mobile_last_bytes = Unsampled <=> mobile_last_bytes["DOWN"] = -1
<1>1. /\ now \in Nat /\ last_mobile_activity \in Nat /\ last_mobile_activity <= now
      /\ mobile_state \in MobileState
      /\ mobile_dev.bytes \in [Direction -> Nat]
      /\ mobile_last_delta_bytes \in [Direction -> Int]
  BY DEF TInv, TypeOK, Stamps
<1>2. now - last_mobile_activity \in Nat
  BY <1>1
<1>3. mobile_last_bytes = Unsampled <=> mobile_last_bytes["DOWN"] = -1
  BY DEF TInv, TypeOK, Unsampled, Direction
<1> QED
  BY <1>1, <1>2, <1>3, OperatorTypes DEF TInv

LEMMA MomentType == TInv => Moment \in MobileState \X Nat
  BY TrackerTypes DEF Moment, Bound

\* The query while the world goes on: only a poll or a reset counts as overtaking,
\* and only the history of the query changes.
LEMMA WatchTypes ==
    ASSUME QueryType, NEW polls \in {0, 1}, NEW reset \in BOOLEAN,
           Watch(polls, reset), Moment' \in MobileState \X Nat
    PROVE  /\ QueryType'
           /\ query'.at = query.at
           /\ query.at = "queues" =>
                 /\ query.overtaken \in 0..2
                 /\ query'.overtaken
                       = IF query.overtaken = 2 THEN 2 ELSE query.overtaken + polls
                 /\ query'.counts = query.counts /\ query'.readable = query.readable
                 /\ query'.asked = query.asked /\ query'.expiring = query.expiring
                 /\ query'.sampled = query.sampled
           /\ query.at \in {"cost", "weight", "average"} =>
                 /\ query'.state = query.state /\ query'.cost = query.cost
                 /\ query'.weight = query.weight
                 /\ query'.reset = (query.reset \/ (query.at # "average" /\ reset))
<1>1. CASE query \in QueuesQuery
  <2> DEFINE more == IF query.overtaken = 2 THEN 2 ELSE query.overtaken + polls
  <2>1. query.at = "queues" /\ query.overtaken \in 0..2
    BY <1>1 DEF QueuesQuery
  <2>2. query' = [query EXCEPT !.overtaken = more]
    BY <2>1 DEF Watch
  <2>3. more \in 0..2
    BY <2>1
  <2> HIDE DEF more
  <2>4. query' \in QueuesQuery
    BY <1>1, <2>2, <2>3 DEF QueuesQuery
  <2>5. query'.overtaken = more
    BY <1>1, <2>2 DEF QueuesQuery
  <2> QED
    BY <1>1, <2>1, <2>2, <2>4, <2>5 DEF QueryType, QueuesQuery, more
<1>2. CASE query \in IdleQuery
  <2>1. query.at = "idle"
    BY <1>2 DEF IdleQuery
  <2>2. query' = [query EXCEPT !.moments = @ \cup {Moment'}]
    BY <2>1 DEF Watch
  <2>3. query.moments \cup {Moment'} \in SUBSET (MobileState \X Nat)
    BY <1>2 DEF IdleQuery
  <2>4. query' \in IdleQuery /\ query'.at = query.at
    BY <1>2, <2>2, <2>3 DEF IdleQuery
  <2> QED
    BY <2>1, <2>4 DEF QueryType
<1>3. CASE query = NoQuery \/ query \in StateQuery
  <2>1. query.at \in {"none", "state"}
    BY <1>3 DEF NoQuery, StateQuery
  <2>2. query' = query
    BY <2>1 DEF Watch
  <2> QED
    BY <2>1, <2>2 DEF QueryType
<1>4. CASE query \in AverageQuery /\ query.at \in {"cost", "weight"}
  <2>1. query' = [query EXCEPT !.reset = @ \/ reset]
    BY <1>4 DEF Watch
  <2>2. (query.reset \/ reset) \in BOOLEAN
    BY <1>4 DEF AverageQuery
  <2>3. query' \in AverageQuery
    BY <1>4, <2>1, <2>2 DEF AverageQuery
  <2> QED
    BY <1>4, <2>1, <2>3 DEF QueryType, AverageQuery
<1>5. CASE query \in AverageQuery /\ query.at = "average"
  <2>1. query' = query
    BY <1>5 DEF Watch
  <2> QED
    BY <1>5, <2>1 DEF QueryType, AverageQuery
<1>6. query \in AverageQuery => query.at \in {"cost", "weight", "average"}
  BY DEF AverageQuery
<1> QED
  BY <1>1, <1>2, <1>3, <1>4, <1>5, <1>6 DEF QueryType
-----------------------------------------------------------------------------
(* The answer of a query that polls overtake.                              *)

\* What the answer would be if the lock were taken now, in a query that read the
\* counters when there was a sample.
AnswerNow(d) == mobile_last_delta_bytes[d] + (query.counts[d] - mobile_last_bytes[d])

\* Nothing has overtaken the query, and the answer is the one asked for; or one poll
\* has, which sampled what the counters read lack, or dropped the last sample, or both.
AnswerHolds ==
    query.at = "queues" =>
        /\ query.overtaken = 0 => (mobile_last_bytes # Unsampled <=> query.sampled)
        /\ query.overtaken = 0 /\ query.readable /\ query.sampled =>
              \A d \in Direction : /\ AnswerNow(d) = query.asked[d]
                                   /\ mobile_last_delta_bytes[d] = query.expiring[d]
        /\ query.overtaken = 1 /\ query.readable /\ query.sampled
              /\ mobile_last_bytes # Unsampled =>
              \A d \in Direction :
                 AnswerNow(d) \in {query.asked[d], query.asked[d] - query.expiring[d]}

\* What a poll does to the sample and to the bytes of the last one.
LEMMA SampleOfPoll ==
    ASSUME TInv, Poll, mobile_last_bytes # Unsampled
    PROVE  \/ /\ mobile_last_bytes' = mobile_dev.bytes
              /\ mobile_last_delta_bytes' = Delta
           \/ /\ mobile_last_bytes' = mobile_last_bytes
              /\ mobile_last_delta_bytes' \in {mobile_last_delta_bytes, NoCount}
BY TrackerTypes DEF Poll, update_mobile_state, UpdateReadFails, UpdateBaseline,
   UpdateActivity, UpdateQuiet, QuietDelta, Stored, estimate

\* A poll that overtakes a query for the first time.
LEMMA FirstOvertaking ==
    ASSUME TInv, QueryType, AnswerHolds, Poll, query.at = "queues",
           query.readable, query.sampled, query.overtaken = 0,
           NEW d \in Direction
    PROVE  mobile_last_delta_bytes'[d] + (query.counts[d] - mobile_last_bytes'[d])
              \in {query.asked[d], query.asked[d] - query.expiring[d]}
<1>1. query \in QueuesQuery
  BY QueryKinds
<1>2. /\ query.counts[d] \in Int /\ query.asked[d] \in Int /\ query.expiring[d] \in Int
      /\ mobile_last_bytes[d] \in Int /\ mobile_last_delta_bytes[d] \in Int
      /\ mobile_dev.bytes[d] \in Int
  <2>1. /\ query.counts \in [Direction -> Nat] /\ query.asked \in [Direction -> Int]
        /\ query.expiring \in [Direction -> Int]
    BY <1>1 DEF QueuesQuery
  <2> QED
    BY <2>1, TrackerTypes
<1>3. /\ mobile_last_delta_bytes[d] + (query.counts[d] - mobile_last_bytes[d])
            = query.asked[d]
      /\ mobile_last_delta_bytes[d] = query.expiring[d]
      /\ mobile_last_bytes # Unsampled
  BY DEF AnswerHolds, AnswerNow
<1>4. CASE /\ mobile_last_bytes' = mobile_dev.bytes
           /\ mobile_last_delta_bytes' = Delta
  <2>1. mobile_last_delta_bytes'[d] = mobile_dev.bytes[d] - mobile_last_bytes[d]
    BY <1>4 DEF Delta
  <2> QED
    BY <1>2, <1>3, <1>4, <2>1
<1>5. CASE /\ mobile_last_bytes' = mobile_last_bytes
           /\ mobile_last_delta_bytes' = mobile_last_delta_bytes
  BY <1>3, <1>5
<1>6. CASE /\ mobile_last_bytes' = mobile_last_bytes
           /\ mobile_last_delta_bytes' = NoCount
  <2>1. mobile_last_delta_bytes'[d] = 0
    BY <1>6 DEF NoCount
  <2> QED
    BY <1>2, <1>3, <1>6, <2>1
<1> QED
  BY <1>3, <1>4, <1>5, <1>6, SampleOfPoll

\* The counters are read together with the history of the answer.
LEMMA AnswerWhenAsked ==
    ASSUME TInv, QueryReadCounters, UNCHANGED mobilevars
    PROVE  QueryType' /\ AnswerHolds'
<1> DEFINE asked == [d \in Direction |-> QueueNow(d)]
<1>1. query' = [at |-> "queues", counts |-> mobile_dev.bytes, readable |-> CanRead,
                asked |-> asked, expiring |-> mobile_last_delta_bytes,
                sampled |-> mobile_last_bytes # Unsampled, since |-> now, overtaken |-> 0]
  BY DEF QueryReadCounters
<1>2. asked \in [Direction -> Int]
  <2> SUFFICES ASSUME NEW d \in Direction PROVE QueueNow(d) \in Int
    OBVIOUS
  <2>1. Delta[d] \in Int /\ mobile_last_delta_bytes[d] \in Int
    BY TrackerTypes, OperatorTypes DEF TInv
  <2> QED
    BY <2>1 DEF QueueNow, get_mobile_queue_len, Delta
<1>3. CanRead \in BOOLEAN /\ (mobile_last_bytes # Unsampled) \in BOOLEAN
  BY Zenon DEF CanRead, Readable
<1>4. query' \in QueuesQuery
  <2> HIDE DEF asked
  <2> QED
    BY <1>1, <1>2, <1>3, TrackerTypes DEF QueuesQuery
<1>5. UNCHANGED <<mobile_last_bytes, mobile_last_delta_bytes>>
  BY DEF mobilevars, estimate
<1>6. ASSUME CanRead, mobile_last_bytes # Unsampled, NEW d \in Direction
      PROVE  mobile_last_delta_bytes[d] + (mobile_dev.bytes[d] - mobile_last_bytes[d])
                = asked[d]
  <2>1. mobile_last_bytes["DOWN"] # -1
    BY <1>6, TrackerTypes
  <2> QED
    BY <1>6, <2>1 DEF QueueNow, get_mobile_queue_len
<1> HIDE DEF asked
<1>7. AnswerHolds'
  BY <1>1, <1>5, <1>6 DEF AnswerHolds, AnswerNow
<1> QED
  BY <1>4, <1>7 DEF QueryType

\* The other steps of get_energy_computer.
LEMMA ComputerTypes ==
    ASSUME TInv, QueryType, QueryQueues \/ QueryState \/ QueryIdle
    PROVE  QueryType' /\ query'.at # "queues"
<1>1. CASE QueryQueues
  <2>1. query.since \in Nat
    BY <1>1, QueryKinds DEF QueryQueues, QueuesQuery
  <2>2. query' = [at |-> "state", since |-> query.since]
    BY <1>1 DEF QueryQueues
  <2> QED
    BY <2>1, <2>2 DEF QueryType, StateQuery
<1>2. CASE QueryState
  <2>1. query.since \in Nat
    BY <1>2, QueryKinds DEF QueryState, StateQuery
  <2>2. query' = [at |-> "idle", since |-> query.since, state |-> mobile_state,
                  moments |-> {Moment}]
    BY <1>2 DEF QueryState
  <2> QED
    BY <2>1, <2>2, MomentType, TrackerTypes DEF QueryType, IdleQuery
<1>3. CASE QueryIdle
  BY <1>3 DEF QueryIdle, QueryType, NoQuery
<1> QED
  BY <1>1, <1>2, <1>3
-----------------------------------------------------------------------------
(* The readings of the average estimate are numbers.                       *)

LEMMA Arithmetic ==
    /\ \A a, b \in Int : a * b \in Int
    /\ \A a, b \in Nat : a * b \in Nat
    /\ \A a, b \in Nat \ {0} : a * b \in Nat \ {0}
    /\ \A a \in Int, b \in Nat \ {0} :
          /\ a \div b \in Int
          /\ b * (a \div b) <= a
          /\ a < b * (a \div b) + b
    /\ \A a \in Nat, b \in Nat \ {0} : a \div b \in Nat
<1>1. \A a, b \in Int : a * b \in Int
  OBVIOUS
<1>2. \A a, b \in Nat \ {0} : a * b \in Nat \ {0}
  BY SMTT(30)
<1>3. \A a \in Int, b \in Nat \ {0} :
         a \div b \in Int /\ b * (a \div b) <= a /\ a < b * (a \div b) + b
  BY SMTT(30)
<1>4. \A a, b \in Nat : a * b \in Nat
  BY SMTT(30)
<1>5. \A a \in Nat, b \in Nat \ {0} : a \div b \in Nat
  BY SMTT(30)
<1> QED
  BY <1>1, <1>2, <1>3, <1>4, <1>5

\* The weights read at one moment are shares of one whole.
LEMMA Weights ==
    ASSUME TInv
    PROVE  /\ \A s \in MobileState : time_in_state(s) \in Nat
           /\ total_time = time_in_state("IDLE") + time_in_state("FACH")
                           + time_in_state("DCH")
           /\ TimeAccounted => total_time > 0
<1>1. /\ now \in Nat /\ last_mobile_state_change \in Nat /\ last_reset \in Nat
      /\ last_mobile_state_change <= now /\ last_reset <= now
      /\ mobile_state \in MobileState
      /\ \A s \in MobileState : time_in_mobile_state[s] \in Nat
  BY DEF TInv, TypeOK, Stamps
<1>2. CurrentStay \in Nat
  BY <1>1 DEF CurrentStay
<1>3. /\ time_in_mobile_state["IDLE"] \in Nat
      /\ time_in_mobile_state["FACH"] \in Nat
      /\ time_in_mobile_state["DCH"] \in Nat
  BY <1>1 DEF MobileState
<1>4. \A s \in MobileState : time_in_state(s) \in Nat
  BY <1>1, <1>2 DEF time_in_state
<1>5. ASSUME TimeAccounted PROVE total_time > 0
  <2>1. total_time = SECOND + (now - last_reset)
    BY <1>5 DEF TimeAccounted, total_time, CurrentStay
  <2> QED
    BY <1>1, <2>1, ConstantTypes
<1>6. total_time = time_in_state("IDLE") + time_in_state("FACH") + time_in_state("DCH")
  <2> HIDE DEF CurrentStay
  <2> QED
    BY <1>1, <1>2, <1>3 DEF total_time, TotalTime, time_in_state, MobileState
<1> QED
  BY <1>4, <1>5, <1>6

LEMMA WeightTypes ==
    TInv => /\ time_in_state("IDLE") \in Nat /\ time_in_state("FACH") \in Nat
            /\ time_in_state("DCH") \in Nat /\ total_time \in Nat
BY Weights DEF MobileState

\* Each of the three estimates is a number of mJ.
LEMMA CostTypes ==
    ASSUME TInv
    PROVE  \A s \in MobileState : CostFrom(s) \in Nat
<1> SUFFICES ASSUME NEW s \in MobileState PROVE CostFrom(s) \in Nat
  OBVIOUS
<1> DEFINE t == AverageTransfer
           c == [old_state |-> s, idle_duration |-> average_idle_duration_for_state(s),
                 queue_len |-> 0, ack_dir_queue_len |-> 0]
<1>0. CostFrom(s) = Estimate!estimate_mobile_energy_cost_from_state(c, t)
  BY DEF CostFrom
<1>1. /\ t.datalen \in Nat /\ t.bandwidth \in Nat \ {0} /\ t.rtt \in Nat
      /\ MOBILE_FACH_POWER \in Nat /\ MOBILE_DCH_POWER \in Nat /\ HDR_SIZE \in Nat
      /\ MOBILE_FACH_INACTIVITY_TIMER \in Nat /\ MOBILE_DCH_INACTIVITY_TIMER \in Nat
      /\ SECOND \in Nat \ {0}
  BY AverageAssumption, ConstantTypes
<1>2. average_idle_duration_for_state(s) \in Nat
  <2>1. /\ idle_durations_per_state[s] \in Nat
        /\ idle_duration_update_counts[s] \in Nat \ {0}
    BY DEF TInv, TypeOK
  <2> QED
    BY <2>1, Arithmetic DEF average_idle_duration_for_state
<1>3. /\ c.old_state = s /\ c.idle_duration \in Nat
      /\ Estimate!NewState(c, t) \in {"FACH", "DCH"}
  BY <1>2 DEF Estimate!NewState
<1> HIDE DEF c, t
<1>4. Estimate!Postponed(c) \in Nat
  BY <1>1, <1>3 DEF Estimate!Postponed, Estimate!InactivityTimer
<1>5. Estimate!Bytes(t) \in Nat
  BY <1>1 DEF Estimate!Bytes
<1>6. \A power, tail \in Nat : /\ Estimate!Energy(power, t, tail) \in Nat
                               /\ Estimate!TailEnergy(power, t, tail) \in Nat
  <2> SUFFICES ASSUME NEW power \in Nat, NEW tail \in Nat
               PROVE  /\ Estimate!Energy(power, t, tail) \in Nat
                      /\ Estimate!TailEnergy(power, t, tail) \in Nat
    OBVIOUS
  <2>1. t.bandwidth * (t.rtt + tail) \in Nat /\ t.bandwidth * tail \in Nat
    BY <1>1, Arithmetic
  <2>2. Estimate!Bytes(t) + t.bandwidth * (t.rtt + tail) \in Nat
    BY <1>5, <2>1
  <2> QED
    BY <2>1, <2>2, Arithmetic DEF Estimate!Energy, Estimate!TailEnergy
<1>7. Estimate!FachEnergy(c, t) \in Nat /\ Estimate!DchEnergy(c, t) \in Nat
  BY <1>1, <1>3, <1>4, <1>6 DEF Estimate!FachEnergy, Estimate!DchEnergy, MobileState
<1>8. t.bandwidth * SECOND \in Nat \ {0}
  BY <1>1, Arithmetic
<1>9. \A e \in Nat : Estimate!InMilliJoule(e, t) \in Nat
  BY <1>8, Arithmetic DEF Estimate!InMilliJoule
<1> QED
  BY <1>0, <1>7, <1>9 DEF Estimate!estimate_mobile_energy_cost_from_state

LEMMA AverageTypes ==
    ASSUME TrackerInv, QueryType,
           QueryAverage \/ QueryCost \/ QueryWeight \/ QueryAnswered
    PROVE  QueryType' /\ query'.at # "queues"
<1>0. TInv /\ TimeAccounted
  BY DEF TrackerInv
<1>1. CASE QueryAverage
  <2>1. now \in Nat
    BY <1>0, TrackerTypes
  <2> QED
    BY <1>1, <2>1 DEF QueryAverage, QueryType, AverageQuery, Weight, MobileState
<1>2. CASE QueryCost
  <2>1. query \in AverageQuery /\ CostFrom(query.state) \in Nat
    BY <1>0, <1>2, QueryKinds, CostTypes DEF QueryCost, AverageQuery
  <2>2. query' = [query EXCEPT !.at = "weight",
                               !.cost[query.state] = CostFrom(query.state)]
    BY <1>2 DEF QueryCost
  <2>3. query' \in AverageQuery
    BY <2>1, <2>2 DEF AverageQuery
  <2> QED
    BY <2>3 DEF QueryType, AverageQuery
<1>3. CASE QueryWeight
  <2>1. query \in AverageQuery
    BY <1>3, QueryKinds DEF QueryWeight
  <2>2. query.state \in MobileState
    BY <2>1 DEF AverageQuery
  <2>3. time_fraction_in_state(query.state) \in Weight
    <3>1. /\ time_in_state("IDLE") \in Nat /\ time_in_state("FACH") \in Nat
          /\ time_in_state("DCH") \in Nat
      BY <1>0, Weights DEF MobileState
    <3>2. total_time \in Nat \ {0} /\ time_in_state(query.state) \in Nat
      BY <1>0, <2>2, <3>1, Weights
    <3> QED
      BY <3>2 DEF time_fraction_in_state, Weight
  <2>4. NextState(query.state) \in MobileState
    BY DEF NextState, MobileState
  <2>5. query'
          = [query EXCEPT !.at = IF query.state = "DCH" THEN "average" ELSE "cost",
                          !.state = NextState(query.state),
                          !.weight[query.state] = time_fraction_in_state(query.state)]
    BY <1>3 DEF QueryWeight
  <2>6. query' \in AverageQuery
    BY <2>1, <2>3, <2>4, <2>5 DEF AverageQuery
  <2> QED
    BY <2>6 DEF QueryType, AverageQuery
<1>4. CASE QueryAnswered
  BY <1>4 DEF QueryAnswered, QueryType, NoQuery
<1> QED
  BY <1>1, <1>2, <1>3, <1>4
-----------------------------------------------------------------------------
(* Every step of the query and of the world around it.                     *)

LEMMA QueryNext ==
    ASSUME TrackerInv, TrackerInv', QueryType, AnswerHolds, [QueriesNext]_queriesvars
    PROVE  QueryType' /\ AnswerHolds'
<1>0. TInv /\ TInv'
  BY DEF TrackerInv
<1>1. Moment' \in MobileState \X Nat
  <2>1. (TInv => Moment \in MobileState \X Nat)'
    BY MomentType, PTL
  <2> QED
    BY <1>0, <2>1
<1>2. CASE get_energy_computer
  <2>1. CASE QueryReadCounters
    BY <1>0, <1>2, <2>1, AnswerWhenAsked DEF get_energy_computer
  <2>2. CASE QueryQueues \/ QueryState \/ QueryIdle
    BY <1>0, <2>2, ComputerTypes DEF AnswerHolds
  <2> QED
    BY <1>2, <2>1, <2>2 DEF get_energy_computer
<1>3. CASE estimate_mobile_energy_cost_average
  BY <1>3, AverageTypes DEF estimate_mobile_energy_cost_average, AnswerHolds
<1>4. ASSUME Watch(0, FALSE), UNCHANGED <<mobile_last_bytes, mobile_last_delta_bytes>>
      PROVE  QueryType' /\ AnswerHolds'
  <2>1. /\ QueryType'
        /\ query'.at = query.at
        /\ query.at = "queues" =>
              /\ query'.overtaken = IF query.overtaken = 2 THEN 2 ELSE query.overtaken + 0
              /\ query.overtaken \in 0..2
              /\ query'.counts = query.counts /\ query'.readable = query.readable
              /\ query'.asked = query.asked /\ query'.expiring = query.expiring
              /\ query'.sampled = query.sampled
    BY <1>1, <1>4, WatchTypes
  <2>2. query.at = "queues" => query'.overtaken = query.overtaken
    BY <2>1
  <2> QED
    BY <1>4, <2>1, <2>2 DEF AnswerHolds, AnswerNow
<1>5. ASSUME NEW reset \in BOOLEAN, Watch(1, reset), Poll \/ ResetStats
      PROVE  QueryType' /\ AnswerHolds'
  <2>1. /\ QueryType'
        /\ query'.at = query.at
        /\ query.at = "queues" =>
              /\ query'.overtaken = IF query.overtaken = 2 THEN 2 ELSE query.overtaken + 1
              /\ query.overtaken \in 0..2
              /\ query'.counts = query.counts /\ query'.readable = query.readable
              /\ query'.asked = query.asked /\ query'.expiring = query.expiring
              /\ query'.sampled = query.sampled
    BY <1>1, <1>5, WatchTypes
  <2>2. ASSUME query'.at = "queues", query'.readable, query'.sampled,
               query'.overtaken = 1, mobile_last_bytes' # Unsampled,
               NEW d \in Direction
        PROVE  AnswerNow(d)' \in {query'.asked[d], query'.asked[d] - query'.expiring[d]}
    <3>1. query.overtaken = 0
      BY <2>1, <2>2
    <3>2. Poll
      BY <1>5, <2>2 DEF ResetStats
    <3> QED
      BY <1>0, <2>1, <2>2, <3>1, <3>2, FirstOvertaking DEF AnswerNow
  <2>3. query'.at = "queues" => query'.overtaken # 0
    BY <2>1
  <2> QED
    BY <2>1, <2>2, <2>3 DEF AnswerHolds
<1>6. CASE (Horizon /\ UNCHANGED query) \/ UNCHANGED queriesvars
  <2>1. UNCHANGED <<query, mobile_last_bytes, mobile_last_delta_bytes>>
    BY <1>6 DEF Horizon, queriesvars, mobilevars, estimate
  <2> QED
    BY <2>1 DEF QueryType, AnswerHolds, AnswerNow
<1>7. CASE (Tick \/ Transfer \/ DevDown \/ DevUp) /\ Watch(0, FALSE)
  BY <1>4, <1>7 DEF Tick, Transfer, DevDown, DevUp, estimate
<1>8. CASE Poll /\ Watch(1, FALSE)
  BY <1>5, <1>8
<1>9. CASE ResetStats /\ Watch(1, TRUE)
  BY <1>5, <1>9
<1> QED
  BY <1>2, <1>3, <1>6, <1>7, <1>8, <1>9 DEF QueriesNext

QueryInv == TrackerInv /\ QueryType /\ AnswerHolds

LEMMA QueryInvOfQueries ==
    /\ QueriesInit => QueryInv
    /\ QueryInv /\ [QueriesNext]_queriesvars => QueryInv'
<1>1. QueriesInit => QueryType /\ AnswerHolds
  BY DEF QueriesInit, QueryType, AnswerHolds, NoQuery
<1> QED
  BY <1>1, TrackerInvOfQueries, QueryNext DEF QueryInv

\* A query that one poll overtakes between the counters and the lock still gets the
\* answer its counters gave, less at most the sample the poll dropped.
LEMMA OvertakenAnswer ==
    ASSUME QueryInv, QueryQueues, query.readable, query.sampled, query.overtaken <= 1,
           mobile_last_bytes # Unsampled, NEW d \in Direction
    PROVE  QueueAnswer(query)[d] \in {query.asked[d], query.asked[d] - query.expiring[d]}
<1>0. TInv /\ QueryType /\ AnswerHolds
  BY DEF QueryInv, TrackerInv
<1>1. query.at = "queues"
  BY DEF QueryQueues
<1>2. query \in QueuesQuery /\ query.overtaken \in {0, 1}
  BY <1>0, <1>1, QueryKinds DEF QueuesQuery
<1>3. AnswerNow(d) \in {query.asked[d], query.asked[d] - query.expiring[d]}
  <2>1. CASE query.overtaken = 0
    <3>1. AnswerNow(d) = query.asked[d]
      BY <1>0, <1>1, <2>1 DEF AnswerHolds
    <3> QED
      BY <3>1
  <2>2. CASE query.overtaken = 1
    BY <1>0, <1>1, <2>2 DEF AnswerHolds
  <2> QED
    BY <1>2, <2>1, <2>2
<1>4. QueueAnswer(query)[d] = AnswerNow(d)
  BY <1>0, TrackerTypes DEF QueueAnswer, get_mobile_queue_len, AnswerNow
<1> QED
  BY <1>3, <1>4

THEOREM OvertakenQuery == QueriesSpec => OvertakenQueueHolds
<1> DEFINE Answered ==
       QueryQueues /\ query.readable /\ query.sampled /\ query.overtaken <= 1
                   /\ mobile_last_bytes # Unsampled =>
          \A d \in Direction :
             QueueAnswer(query)[d] \in {query.asked[d], query.asked[d] - query.expiring[d]}
<1>1. QueryInv => Answered
  BY OvertakenAnswer
<1> QED
  BY <1>1, QueryInvOfQueries, PTL DEF QueriesSpec, OvertakenQueueHolds
-----------------------------------------------------------------------------
(* An interface that never restarts: when an answer may be negative.       *)

\* What was asked for was no negative number, even without the sample a poll may drop.
AskedHolds ==
    query.at = "queues" =>
        \A d \in Direction : 0 <= query.expiring[d] /\ query.expiring[d] <= query.asked[d]

\* The counters and the sample, of which the tracker keeps the order.
CountsInv == CounterOrder /\ SampleNonNegative

LEMMA CountsInvOfQueries ==
    ASSUME ~IFACE_RESTARTS
    PROVE  /\ QueriesInit => CountsInv
           /\ TInv /\ CountsInv /\ [QueriesNext]_queriesvars => CountsInv'
<1>1. QueriesInit => CountsInv
  <2>1. MobileInit => SampleNonNegative
    BY DEF MobileInit, SampleNonNegative, NoCount
  <2> QED
    BY <2>1, CounterOrderInit DEF QueriesInit, CountsInv
<1>2. TInv /\ CountsInv /\ [QueriesNext]_queriesvars => CountsInv'
  BY TrackerStep, CounterOrderNext, SampleNonNegativeNext DEF CountsInv
<1> QED
  BY <1>1, <1>2

LEMMA AskedHoldsNext ==
    ASSUME TrackerInv, TrackerInv', CountsInv, QueryType, AskedHolds,
           [QueriesNext]_queriesvars
    PROVE  AskedHolds'
<1>0. TInv /\ TInv'
  BY DEF TrackerInv
<1>1. CASE QueryReadCounters
  <2> SUFFICES ASSUME NEW d \in Direction
               PROVE  /\ 0 <= mobile_last_delta_bytes[d]
                      /\ mobile_last_delta_bytes[d] <= QueueNow(d)
    BY <1>1 DEF QueryReadCounters, AskedHolds
  <2>1. /\ mobile_last_delta_bytes[d] \in Int /\ mobile_last_delta_bytes[d] >= 0
        /\ mobile_last_bytes[d] \in Int /\ mobile_dev.bytes[d] \in Nat
        /\ mobile_last_bytes[d] <= mobile_dev.bytes[d]
    BY <1>0, TrackerTypes DEF CountsInv, CounterOrder, SampleNonNegative
  <2> QED
    BY <2>1 DEF QueueNow, get_mobile_queue_len
<1>2. CASE QueryQueues \/ QueryState \/ QueryIdle
  BY <1>2 DEF QueryQueues, QueryState, QueryIdle, NoQuery, AskedHolds
<1>3. CASE QueryAverage \/ QueryCost \/ QueryWeight \/ QueryAnswered
  BY <1>3, AverageTypes DEF AskedHolds
<1>4. ASSUME NEW polls \in {0, 1}, NEW reset \in BOOLEAN, Watch(polls, reset)
      PROVE  AskedHolds'
  <2>1. Moment' \in MobileState \X Nat
    <3>1. (TInv => Moment \in MobileState \X Nat)'
      BY MomentType, PTL
    <3> QED
      BY <1>0, <3>1
  <2>2. /\ query'.at = query.at
        /\ query.at = "queues" =>
              query'.asked = query.asked /\ query'.expiring = query.expiring
    BY <1>4, <2>1, WatchTypes
  <2> QED
    BY <2>2 DEF AskedHolds
<1>5. CASE UNCHANGED query
  BY <1>5 DEF AskedHolds
<1> QED
  BY <1>1, <1>2, <1>3, <1>4, <1>5 DEF QueriesNext, get_energy_computer,
     estimate_mobile_energy_cost_average, queriesvars

\* On an interface that does not restart, an application is told of a negative queue
\* only if two polls, or the first sample after a reset, came between the counters and
\* the lock; and of one no further below zero than the interface carried meanwhile.
THEOREM NegativeOnlyIfOvertaken ==
    ASSUME ~IFACE_RESTARTS
    PROVE  QueriesSpec => QueueNonNegative
<1> DEFINE Told ==
       QueryQueues =>
          \A d \in Direction :
             \/ QueueAnswer(query)[d] >= 0
             \/ /\ query.overtaken >= (IF query.sampled THEN 2 ELSE 1)
                /\ QueueAnswer(query)[d] >= query.counts[d] - mobile_dev.bytes[d]
<1>1. QueryInv /\ CountsInv /\ AskedHolds => Told
  <2> SUFFICES ASSUME QueryInv, CountsInv, AskedHolds, QueryQueues, NEW d \in Direction
               PROVE  \/ QueueAnswer(query)[d] >= 0
                      \/ /\ query.overtaken >= (IF query.sampled THEN 2 ELSE 1)
                         /\ QueueAnswer(query)[d] >= query.counts[d] - mobile_dev.bytes[d]
    OBVIOUS
  <2>0. TInv /\ QueryType /\ AnswerHolds /\ query.at = "queues"
    BY DEF QueryInv, TrackerInv, QueryQueues
  <2>1. query \in QueuesQuery
    BY <2>0, QueryKinds
  <2>2. /\ query.counts[d] \in Int /\ query.asked[d] \in Int /\ query.expiring[d] \in Int
        /\ query.overtaken \in 0..2
        /\ query.readable \in BOOLEAN /\ query.sampled \in BOOLEAN
    <3>1. /\ query.counts \in [Direction -> Nat] /\ query.asked \in [Direction -> Int]
          /\ query.expiring \in [Direction -> Int] /\ query.overtaken \in 0..2
          /\ query.readable \in BOOLEAN /\ query.sampled \in BOOLEAN
      BY <2>1 DEF QueuesQuery
    <3> QED
      BY <3>1
  <2>3. /\ mobile_last_delta_bytes[d] \in Int /\ mobile_last_delta_bytes[d] >= 0
        /\ mobile_last_bytes[d] \in Int /\ mobile_dev.bytes[d] \in Nat
        /\ mobile_last_bytes[d] <= mobile_dev.bytes[d]
    BY <2>0, TrackerTypes DEF CountsInv, CounterOrder, SampleNonNegative
  <2>4. CASE ~query.readable \/ mobile_last_bytes = Unsampled
    <3>1. QueueAnswer(query)[d] = mobile_last_delta_bytes[d] + 0
      BY <2>0, <2>4, TrackerTypes DEF QueueAnswer, get_mobile_queue_len
    <3> QED
      BY <2>3, <3>1
  <2>5. CASE query.readable /\ mobile_last_bytes # Unsampled
    <3>1. QueueAnswer(query)[d]
             = mobile_last_delta_bytes[d] + (query.counts[d] - mobile_last_bytes[d])
      BY <2>0, <2>5, TrackerTypes DEF QueueAnswer, get_mobile_queue_len
    <3>2. QueueAnswer(query)[d] >= query.counts[d] - mobile_dev.bytes[d]
      BY <2>2, <2>3, <3>1
    <3>3. CASE query.sampled /\ query.overtaken <= 1
      <4>1. QueueAnswer(query)[d] \in {query.asked[d], query.asked[d] - query.expiring[d]}
        BY <2>5, <3>3, OvertakenAnswer
      <4>2. 0 <= query.expiring[d] /\ query.expiring[d] <= query.asked[d]
        BY <2>0 DEF AskedHolds
      <4> QED
        BY <2>2, <4>1, <4>2
    <3>4. CASE ~query.sampled
      <4>1. query.overtaken # 0
        BY <2>0, <2>5, <3>4 DEF AnswerHolds
      <4>2. query.overtaken >= 1
        BY <2>2, <4>1
      <4> QED
        BY <3>2, <3>4, <4>2
    <3>5. CASE query.sampled /\ ~(query.overtaken <= 1)
      BY <2>2, <3>2, <3>5
    <3> QED
      BY <2>2, <3>3, <3>4, <3>5
  <2> QED
    BY <2>2, <2>4, <2>5
<1>2. QueriesInit => CountsInv /\ AskedHolds
  BY CountsInvOfQueries DEF QueriesInit, AskedHolds, NoQuery
<1>3. QueryInv /\ QueryInv' /\ CountsInv /\ AskedHolds /\ [QueriesNext]_queriesvars
        => (CountsInv /\ AskedHolds)'
  BY CountsInvOfQueries, AskedHoldsNext DEF QueryInv, TrackerInv
<1> QED
  BY <1>1, <1>2, <1>3, QueryInvOfQueries, PTL DEF QueriesSpec, QueueNonNegative
-----------------------------------------------------------------------------
(* The average estimate.                                                   *)

\* No step but a reset takes from the time spent in a state.
LEMMA TimesGrow ==
    ASSUME TInv, TInv', [Tick \/ Transfer \/ DevDown \/ DevUp \/ Poll \/ Horizon]_mobilevars
    PROVE  /\ \A s \in MobileState : time_in_state(s) <= time_in_state(s)'
           /\ total_time <= total_time'
<1>0. /\ now \in Nat /\ last_mobile_state_change \in Nat
      /\ last_mobile_state_change <= now
      /\ HasElapsedSecond(last_mobile_state_change)
      /\ mobile_state \in MobileState
      /\ time_in_mobile_state \in [MobileState -> Nat]
  BY DEF TInv, TypeOK, Stamps
<1>1. \A s \in MobileState : time_in_state(s) \in Nat
  BY Weights
<1>2. /\ total_time = time_in_state("IDLE") + time_in_state("FACH") + time_in_state("DCH")
      /\ total_time' = time_in_state("IDLE")' + time_in_state("FACH")'
                       + time_in_state("DCH")'
  <2>1. (TInv => total_time = time_in_state("IDLE") + time_in_state("FACH")
                              + time_in_state("DCH"))'
    BY Weights, PTL
  <2> QED
    BY <2>1, Weights
<1>3. \A s \in MobileState : time_in_state(s)' \in Nat
  <2>1. (TInv => \A s \in MobileState : time_in_state(s) \in Nat)'
    BY Weights, PTL
  <2> QED
    BY <2>1
<1>4. \A s \in MobileState : time_in_state(s) <= time_in_state(s)'
  <2> SUFFICES ASSUME NEW s \in MobileState
               PROVE  time_in_state(s) <= time_in_state(s)'
    OBVIOUS
  <2>0. time_in_mobile_state[s] \in Nat
    BY <1>0
  <2>1. CASE Tick
    <3>1. /\ now' = now + 1 /\ mobile_state' = mobile_state
          /\ last_mobile_state_change' = last_mobile_state_change
          /\ time_in_mobile_state' = time_in_mobile_state
      BY <2>1 DEF Tick, estimate
    <3> QED
      BY <1>0, <2>0, <3>1 DEF time_in_state, CurrentStay
  <2>2. CASE UNCHANGED <<now, mobile_state, last_mobile_state_change, time_in_mobile_state>>
    BY <1>0, <2>0, <2>2 DEF time_in_state, CurrentStay
  <2>3. CASE /\ now' = now /\ mobile_state' # mobile_state
             /\ RecordStateChange
    <3>1. /\ last_mobile_state_change' = now
          /\ time_in_mobile_state' = [time_in_mobile_state EXCEPT
                ![mobile_state] = @ + (now - last_mobile_state_change)]
      BY <1>0, <2>3 DEF RecordStateChange, AddTimeInState
    <3>2. CurrentStay' = 0
      BY <1>0, <2>3, <3>1 DEF CurrentStay
    <3> QED
      BY <1>0, <2>0, <2>3, <3>1, <3>2 DEF time_in_state, CurrentStay
  <2>4. CASE Poll
    <3>1. now' = now
      BY <2>4 DEF Poll
    <3>2. RecordStateChange \/ UNCHANGED <<mobile_state, last_mobile_state_change,
                                           time_in_mobile_state>>
      BY <2>4 DEF Poll, update_mobile_state, UpdateReadFails, UpdateBaseline,
         UpdateActivity, UpdateQuiet, estimate
    <3>3. RecordStateChange /\ mobile_state' = mobile_state =>
             UNCHANGED <<mobile_state, last_mobile_state_change, time_in_mobile_state>>
      BY DEF RecordStateChange
    <3> QED
      BY <2>2, <2>3, <3>1, <3>2, <3>3
  <2> QED
    BY <2>1, <2>2, <2>4 DEF Transfer, DevDown, DevUp, Horizon, mobilevars, estimate
<1> QED
  BY <1>1, <1>2, <1>3, <1>4 DEF MobileState

\* The weights read so far, and the times not yet read, make up at least the whole of
\* the first reading, and no whole is smaller than the one before it.
WeightsHold ==
    LET t(s) == query.weight[s].time
        n(s) == query.weight[s].of
    IN  /\ query.at \in {"cost", "weight"} /\ ~query.reset /\ query.state = "FACH" =>
              /\ n("IDLE") <= t("IDLE") + time_in_state("FACH") + time_in_state("DCH")
              /\ t("IDLE") <= time_in_state("IDLE")
              /\ n("IDLE") <= total_time
        /\ query.at \in {"cost", "weight"} /\ ~query.reset /\ query.state = "DCH" =>
              /\ n("IDLE") <= t("IDLE") + t("FACH") + time_in_state("DCH")
              /\ t("IDLE") <= time_in_state("IDLE") /\ t("FACH") <= time_in_state("FACH")
              /\ n("IDLE") <= n("FACH") /\ n("FACH") <= total_time
        /\ query.at = "average" /\ ~query.reset =>
              /\ n("IDLE") <= t("IDLE") + t("FACH") + t("DCH")
              /\ t("IDLE") + t("FACH") + t("DCH") <= n("DCH")
              /\ n("IDLE") <= n("FACH") /\ n("FACH") <= n("DCH")

\* Reading one more weight.
LEMMA WeightsHoldRead ==
    ASSUME TInv, QueryType, WeightsHold, QueryWeight, UNCHANGED mobilevars
    PROVE  WeightsHold'
<1>0. query \in AverageQuery /\ query.at = "weight"
  BY QueryKinds DEF QueryWeight
<1> DEFINE w == query.weight
           s == query.state
<1>1. query' = [query EXCEPT !.at = IF s = "DCH" THEN "average" ELSE "cost",
                             !.state = NextState(s),
                             !.weight[s] = time_fraction_in_state(s)]
  BY DEF QueryWeight
<1>2. /\ s \in MobileState /\ w \in [MobileState -> Weight]
      /\ query'.at = (IF s = "DCH" THEN "average" ELSE "cost")
      /\ query'.state = NextState(s)
      /\ query'.reset = query.reset
      /\ query'.weight = [w EXCEPT ![s] = time_fraction_in_state(s)]
  BY <1>0, <1>1 DEF AverageQuery
<1>3. /\ query'.weight[s].time = time_in_state(s) /\ query'.weight[s].of = total_time
      /\ \A r \in MobileState \ {s} : query'.weight[r] = w[r]
  BY <1>2 DEF time_fraction_in_state
<1>4. /\ time_in_state("IDLE") \in Nat /\ time_in_state("FACH") \in Nat
      /\ time_in_state("DCH") \in Nat
      /\ total_time = time_in_state("IDLE") + time_in_state("FACH") + time_in_state("DCH")
  BY Weights DEF MobileState
<1>5. /\ w["IDLE"].time \in Nat /\ w["IDLE"].of \in Nat
      /\ w["FACH"].time \in Nat /\ w["FACH"].of \in Nat
  BY <1>2 DEF Weight, MobileState
<1>6. /\ time_in_state("IDLE")' = time_in_state("IDLE")
      /\ time_in_state("FACH")' = time_in_state("FACH")
      /\ time_in_state("DCH")' = time_in_state("DCH")
      /\ total_time' = total_time
  BY DEF mobilevars, estimate, time_in_state, total_time, TotalTime, CurrentStay
<1>7. CASE s = "IDLE"
  BY <1>2, <1>3, <1>4, <1>6, <1>7 DEF WeightsHold, NextState
<1>8. CASE s = "FACH"
  <2>1. query'.weight["IDLE"] = w["IDLE"]
    BY <1>3, <1>8 DEF MobileState
  <2>2. ~query.reset => /\ w["IDLE"].of <= w["IDLE"].time + time_in_state("FACH")
                                            + time_in_state("DCH")
                        /\ w["IDLE"].time <= time_in_state("IDLE")
                        /\ w["IDLE"].of <= total_time
    BY <1>0, <1>8 DEF WeightsHold
  <2> HIDE DEF w, s
  <2> QED
    BY <1>2, <1>3, <1>4, <1>5, <1>6, <1>8, <2>1, <2>2 DEF WeightsHold, NextState
<1>9. CASE s = "DCH"
  <2>1. query'.weight["IDLE"] = w["IDLE"] /\ query'.weight["FACH"] = w["FACH"]
    BY <1>3, <1>9 DEF MobileState
  <2>2. ~query.reset =>
           /\ w["IDLE"].of <= w["IDLE"].time + w["FACH"].time + time_in_state("DCH")
           /\ w["IDLE"].time <= time_in_state("IDLE")
           /\ w["FACH"].time <= time_in_state("FACH")
           /\ w["IDLE"].of <= w["FACH"].of /\ w["FACH"].of <= total_time
    BY <1>0, <1>9 DEF WeightsHold
  <2> HIDE DEF w, s
  <2> QED
    BY <1>2, <1>3, <1>4, <1>5, <1>6, <1>9, <2>1, <2>2 DEF WeightsHold, NextState
<1> QED
  BY <1>2, <1>7, <1>8, <1>9 DEF MobileState

LEMMA WeightsHoldNext ==
    ASSUME TrackerInv, TrackerInv', QueryType, WeightsHold, [QueriesNext]_queriesvars
    PROVE  WeightsHold'
<1>0. TInv /\ TInv'
  BY DEF TrackerInv
<1>1. Moment' \in MobileState \X Nat
  <2>1. (TInv => Moment \in MobileState \X Nat)'
    BY MomentType, PTL
  <2> QED
    BY <1>0, <2>1
<1>2. CASE get_energy_computer
  BY <1>2 DEF get_energy_computer, QueryReadCounters, QueryQueues, QueryState, QueryIdle,
     NoQuery, WeightsHold
<1>3. CASE estimate_mobile_energy_cost_average
  <2>1. CASE QueryAverage
    BY <2>1 DEF QueryAverage, WeightsHold
  <2>2. CASE QueryCost
    <3>1. query \in AverageQuery /\ query.at = "cost"
      BY <2>2, QueryKinds DEF QueryCost
    <3>2. /\ query'.at = "weight" /\ query'.state = query.state
          /\ query'.reset = query.reset /\ query'.weight = query.weight
      BY <2>2, <3>1 DEF QueryCost, AverageQuery
    <3>3. /\ time_in_state("IDLE")' = time_in_state("IDLE")
          /\ time_in_state("FACH")' = time_in_state("FACH")
          /\ time_in_state("DCH")' = time_in_state("DCH")
          /\ total_time' = total_time
      BY <1>3 DEF estimate_mobile_energy_cost_average, mobilevars, estimate, time_in_state,
         total_time, TotalTime, CurrentStay
    <3> QED
      BY <3>1, <3>2, <3>3 DEF WeightsHold
  <2>3. CASE QueryWeight
    BY <1>0, <1>3, <2>3, WeightsHoldRead DEF estimate_mobile_energy_cost_average
  <2>4. CASE QueryAnswered
    BY <2>4 DEF QueryAnswered, NoQuery, WeightsHold
  <2> QED
    BY <1>3, <2>1, <2>2, <2>3, <2>4 DEF estimate_mobile_energy_cost_average
<1>4. ASSUME NEW polls \in {0, 1}, NEW reset \in BOOLEAN, Watch(polls, reset),
             \/ reset
             \/ [Tick \/ Transfer \/ DevDown \/ DevUp \/ Poll \/ Horizon]_mobilevars
      PROVE  WeightsHold'
  <2>1. /\ query'.at = query.at
        /\ query.at \in {"cost", "weight", "average"} =>
              /\ query'.state = query.state /\ query'.weight = query.weight
              /\ query'.reset = (query.reset \/ (query.at # "average" /\ reset))
    BY <1>1, <1>4, WatchTypes
  <2>2. CASE query.at = "average"
    BY <2>1, <2>2 DEF WeightsHold
  <2>3. CASE query.at \in {"cost", "weight"} /\ ~query'.reset
    <3>1. /\ ~reset /\ ~query.reset
          /\ query'.weight = query.weight /\ query'.state = query.state
          /\ query.at # "average"
      BY <2>1, <2>3
    <3>2. /\ \A s \in MobileState : time_in_state(s) <= time_in_state(s)'
          /\ total_time <= total_time'
      BY <1>0, <1>4, <3>1, TimesGrow
    <3>3. /\ time_in_state("IDLE") \in Nat /\ time_in_state("FACH") \in Nat
          /\ time_in_state("DCH") \in Nat /\ total_time \in Nat
      BY <1>0, WeightTypes
    <3>4. /\ time_in_state("IDLE")' \in Nat /\ time_in_state("FACH")' \in Nat
          /\ time_in_state("DCH")' \in Nat /\ total_time' \in Nat
      <4>1. (TInv => /\ time_in_state("IDLE") \in Nat /\ time_in_state("FACH") \in Nat
                     /\ time_in_state("DCH") \in Nat /\ total_time \in Nat)'
        BY WeightTypes, PTL
      <4> QED
        BY <1>0, <4>1
    <3>5. /\ time_in_state("IDLE") <= time_in_state("IDLE")'
          /\ time_in_state("FACH") <= time_in_state("FACH")'
          /\ time_in_state("DCH") <= time_in_state("DCH")'
      BY <3>2 DEF MobileState
    <3>6. query.weight \in [MobileState -> Weight]
      BY <2>3, QueryKinds DEF AverageQuery
    <3>7. /\ query.weight["IDLE"].time \in Nat /\ query.weight["IDLE"].of \in Nat
          /\ query.weight["FACH"].time \in Nat /\ query.weight["FACH"].of \in Nat
      BY <3>6 DEF Weight, MobileState
    <3>8. CASE query.state = "FACH"
      BY <2>1, <2>3, <3>1, <3>2, <3>3, <3>4, <3>5, <3>7, <3>8 DEF WeightsHold
    <3>9. CASE query.state = "DCH"
      BY <2>1, <2>3, <3>1, <3>2, <3>3, <3>4, <3>5, <3>7, <3>9 DEF WeightsHold
    <3>10. CASE query.state \notin {"FACH", "DCH"}
      BY <2>1, <3>1, <3>10 DEF WeightsHold
    <3> QED
      BY <3>8, <3>9, <3>10
  <2>4. CASE query.at \notin {"cost", "weight", "average"} \/ query'.reset
    BY <2>1, <2>4 DEF WeightsHold
  <2> QED
    BY <2>2, <2>3, <2>4
<1>5. CASE (Horizon /\ UNCHANGED query) \/ UNCHANGED queriesvars
  <2>1. /\ UNCHANGED query
        /\ time_in_state("IDLE")' = time_in_state("IDLE")
        /\ time_in_state("FACH")' = time_in_state("FACH")
        /\ time_in_state("DCH")' = time_in_state("DCH")
        /\ total_time' = total_time
    BY <1>5 DEF Horizon, queriesvars, mobilevars, estimate, time_in_state, total_time,
       TotalTime, CurrentStay
  <2> QED
    BY <2>1 DEF WeightsHold
<1>6. CASE (Tick \/ Transfer \/ DevDown \/ DevUp) /\ Watch(0, FALSE)
  BY <1>4, <1>6
<1>7. CASE Poll /\ Watch(1, FALSE)
  BY <1>4, <1>7
<1>8. CASE ResetStats /\ Watch(1, TRUE)
  BY <1>4, <1>8
<1> QED
  BY <1>2, <1>3, <1>5, <1>6, <1>7, <1>8 DEF QueriesNext

\* Products and their order.
LEMMA Products ==
    /\ \A n \in Nat, a, b \in Int : a <= b => n * a <= n * b
    /\ \A n \in Nat \ {0}, a, b \in Int : a < b => n * a < n * b
    /\ \A n \in Nat \ {0}, a, b \in Int : n * a <= n * b => a <= b
    /\ \A n \in Nat \ {0}, a, b \in Int : n * a < n * b => a < b
<1>1. ASSUME NEW n \in Nat, NEW a \in Int, NEW b \in Int, a <= b
      PROVE  n * a <= n * b
  <2>1. n * (b - a) \in Nat
    BY <1>1, Arithmetic
  <2>2. n * (b - a) = n * b - n * a
    OBVIOUS
  <2> QED
    BY <2>1, <2>2, Arithmetic
<1>2. ASSUME NEW n \in Nat \ {0}, NEW a \in Int, NEW b \in Int, a < b
      PROVE  n * a < n * b
  <2>1. n * (b - a) \in Nat \ {0}
    BY <1>2, Arithmetic
  <2>2. n * (b - a) = n * b - n * a
    OBVIOUS
  <2> QED
    BY <2>1, <2>2, Arithmetic
<1>3. ASSUME NEW n \in Nat \ {0}, NEW a \in Int, NEW b \in Int, n * a <= n * b
      PROVE  a <= b
  <2>1. b < a => n * b < n * a
    BY <1>2
  <2> QED
    BY <1>3, <2>1, Arithmetic
<1>4. ASSUME NEW n \in Nat \ {0}, NEW a \in Int, NEW b \in Int, n * a < n * b
      PROVE  a < b
  <2>1. b <= a => n * b <= n * a
    BY <1>1
  <2> QED
    BY <1>4, <2>1, Arithmetic
<1> QED
  BY <1>1, <1>2, <1>3, <1>4

\* Three numbers weighed by fractions of three wholes, none smaller than the one
\* before, of which the times make up at least the first and at most the last: what
\* comes of it, rounded down, leaves the extremes by no more than their ratio.
LEMMA WeighedAverage ==
    ASSUME NEW x \in Nat, NEW y \in Nat, NEW z \in Nat,
           NEW u \in Nat, NEW v \in Nat, NEW w \in Nat,
           NEW a \in Nat \ {0}, NEW b \in Nat \ {0}, NEW c \in Nat \ {0},
           a <= b, b <= c, a <= u + v + w, u + v + w <= c,
           NEW low \in Nat, low <= x, low <= y, low <= z,
           NEW high \in Nat, x <= high, y <= high, z <= high
    PROVE  LET average == (x * u * b * c + y * v * a * c + z * w * a * b) \div (a * b * c)
           IN  low * a < (average + 1) * c /\ average * a <= high * c
<1> DEFINE whole == a * b * c
           p == u * b * c
           q == v * a * c
           r == w * a * b
           sum == x * u * b * c + y * v * a * c + z * w * a * b
           average == sum \div whole
<1>1. whole \in Nat \ {0} /\ p \in Nat /\ q \in Nat /\ r \in Nat
  <2>1. a * b \in Nat \ {0} /\ u * b \in Nat /\ v * a \in Nat /\ w * a \in Nat
    BY Arithmetic
  <2> QED
    BY <2>1, Arithmetic
<1>2. sum = x * p + y * q + z * r
  OBVIOUS
<1>3. /\ a * p = u * whole
      /\ a * q <= v * whole
      /\ a * r <= w * whole
  <2>1. a * p = u * whole
    OBVIOUS
  <2>2. a * q <= v * whole
    <3>1. v * a * c \in Nat
      BY <1>1
    <3>2. (v * a * c) * a <= (v * a * c) * b
      BY <3>1, Products
    <3>3. a * q = (v * a * c) * a /\ v * whole = (v * a * c) * b
      OBVIOUS
    <3> QED
      BY <3>2, <3>3
  <2>3. a * r <= w * whole
    <3>1. w * a * b \in Nat
      BY <1>1
    <3>2. (w * a * b) * a <= (w * a * b) * c
      BY <3>1, Products
    <3>3. a * r = (w * a * b) * a /\ w * whole = (w * a * b) * c
      OBVIOUS
    <3> QED
      BY <3>2, <3>3
  <2> QED
    BY <2>1, <2>2, <2>3
<1>4. /\ u * whole <= c * p
      /\ v * whole <= c * q
      /\ w * whole = c * r
  <2>1. u * whole <= c * p
    <3>1. u * b * c \in Nat
      BY <1>1
    <3>2. (u * b * c) * a <= (u * b * c) * c
      BY <3>1, Products
    <3>3. u * whole = (u * b * c) * a /\ c * p = (u * b * c) * c
      OBVIOUS
    <3> QED
      BY <3>2, <3>3
  <2>2. v * whole <= c * q
    <3>1. v * a * c \in Nat
      BY <1>1
    <3>2. (v * a * c) * b <= (v * a * c) * c
      BY <3>1, Products
    <3>3. v * whole = (v * a * c) * b /\ c * q = (v * a * c) * c
      OBVIOUS
    <3> QED
      BY <3>2, <3>3
  <2>3. w * whole = c * r
    OBVIOUS
  <2> QED
    BY <2>1, <2>2, <2>3
<1>5. low * (p + q + r) <= sum /\ sum <= high * (p + q + r)
  <2> HIDE DEF p, q, r, sum
  <2>1. p * low <= p * x /\ q * low <= q * y /\ r * low <= r * z
    BY <1>1, Products
  <2>2. p * x <= p * high /\ q * y <= q * high /\ r * z <= r * high
    BY <1>1, Products
  <2>3. /\ low * (p + q + r) = p * low + q * low + r * low
        /\ high * (p + q + r) = p * high + q * high + r * high
        /\ x * p = p * x /\ y * q = q * y /\ z * r = r * z
    BY <1>1
  <2> QED
    BY <1>1, <1>2, <2>1, <2>2, <2>3, Arithmetic
<1> HIDE DEF p, q, r, sum, whole
<1>6. sum \in Nat
  <2>1. x * p \in Nat /\ y * q \in Nat /\ z * r \in Nat
    BY <1>1, Arithmetic
  <2> QED
    BY <1>2, <2>1
<1>7. average \in Nat /\ whole * average <= sum /\ sum < whole * average + whole
  BY <1>1, <1>6, Arithmetic
<1> HIDE DEF average
<1> DEFINE total == p + q + r
<1>8. total \in Nat /\ a * total <= c * whole /\ a * whole <= c * total
  <2>1. /\ a * total = a * p + a * q + a * r
        /\ c * total = c * p + c * q + c * r
        /\ (u + v + w) * whole = u * whole + v * whole + w * whole
    BY <1>1
  <2>2. whole * (u + v + w) <= whole * c /\ whole * a <= whole * (u + v + w)
    BY <1>1, Products
  <2>3. /\ whole * (u + v + w) = (u + v + w) * whole
        /\ whole * c = c * whole /\ whole * a = a * whole
    BY <1>1
  <2>4. /\ a * p \in Int /\ a * q \in Int /\ a * r \in Int
        /\ c * p \in Int /\ c * q \in Int /\ c * r \in Int
        /\ u * whole \in Int /\ v * whole \in Int /\ w * whole \in Int
        /\ c * whole \in Int /\ a * whole \in Int
    BY <1>1, Arithmetic
  <2> QED
    BY <1>1, <1>3, <1>4, <2>1, <2>2, <2>3, <2>4
<1> HIDE DEF total
<1>9. low * total <= sum /\ sum <= high * total
  BY <1>5 DEF total
<1>10. average * a <= high * c
  <2>1. a * (whole * average) <= a * sum /\ a * sum <= a * (high * total)
    BY <1>1, <1>6, <1>7, <1>8, <1>9, Products, Arithmetic
  <2>2. high * (a * total) <= high * (c * whole)
    BY <1>1, <1>8, Products, Arithmetic
  <2>3. /\ a * (whole * average) = whole * (average * a)
        /\ a * (high * total) = high * (a * total)
        /\ high * (c * whole) = whole * (high * c)
    BY <1>1, <1>7, <1>8
  <2>4. average * a \in Int /\ high * c \in Int
    BY <1>7, Arithmetic
  <2>5. /\ whole * (average * a) \in Int /\ a * sum \in Int /\ high * (a * total) \in Int
        /\ whole * (high * c) \in Int
    BY <1>1, <1>6, <1>8, <2>4, Arithmetic
  <2>6. whole * (average * a) <= whole * (high * c)
    BY <2>1, <2>2, <2>3, <2>5
  <2> QED
    BY <1>1, <2>4, <2>6, Products
<1>11. low * a < (average + 1) * c
  <2>1. low * (a * whole) <= low * (c * total)
    BY <1>1, <1>8, Products, Arithmetic
  <2>2. c * (low * total) <= c * sum
    BY <1>6, <1>8, <1>9, Products, Arithmetic
  <2>3. whole * average + whole = whole * (average + 1)
    BY <1>1, <1>7
  <2>4. c * sum < c * (whole * (average + 1))
    <3>1. whole * (average + 1) \in Int /\ sum < whole * (average + 1)
      BY <1>1, <1>7, <2>3, Arithmetic
    <3> QED
      BY <1>6, <3>1, Products
  <2>5. /\ low * (a * whole) = whole * (low * a)
        /\ low * (c * total) = c * (low * total)
        /\ c * (whole * (average + 1)) = whole * ((average + 1) * c)
    BY <1>1, <1>7, <1>8
  <2>6. low * a \in Int /\ (average + 1) * c \in Int
    BY <1>7, Arithmetic
  <2>7. /\ whole * (low * a) \in Int /\ c * (low * total) \in Int /\ c * sum \in Int
        /\ whole * ((average + 1) * c) \in Int
    BY <1>1, <1>6, <1>8, <2>6, Arithmetic
  <2>8. whole * (low * a) < whole * ((average + 1) * c)
    BY <2>1, <2>2, <2>4, <2>5, <2>7
  <2> QED
    BY <1>1, <2>6, <2>8, Products
<1> QED
  BY <1>10, <1>11 DEF average, sum, whole

\* The average estimate reads its three weights at three moments; polls in between may
\* change the state of the radio, but whatever they take from one weight another gets.
\* What it answers leaves the extremes of the costs it weighs by no more than the time
\* that went by while it was asked is worth.
THEOREM AverageStaysWithinExtremes == QueriesSpec => []AverageWithinExtremes
<1>1. QueryInv /\ WeightsHold => AverageWithinExtremes
  <2> SUFFICES ASSUME QueryType, WeightsHold, query.at = "average", ~query.reset
               PROVE  AverageWithinExtremes
    BY DEF QueryInv, AverageWithinExtremes
  <2> DEFINE cost   == query.cost
             weight == query.weight
             first  == weight["IDLE"].of
             last   == weight["DCH"].of
             average == AverageAnswer(cost, weight)
  <2>1. cost \in [MobileState -> Nat] /\ weight \in [MobileState -> Weight]
    BY QueryKinds DEF AverageQuery
  <2>2. /\ first <= weight["IDLE"].time + weight["FACH"].time + weight["DCH"].time
        /\ weight["IDLE"].time + weight["FACH"].time + weight["DCH"].time <= last
        /\ first <= weight["FACH"].of /\ weight["FACH"].of <= last
    BY DEF WeightsHold
  <2> HIDE DEF cost, weight
  <2>3. /\ cost["IDLE"] \in Nat /\ cost["FACH"] \in Nat /\ cost["DCH"] \in Nat
        /\ weight["IDLE"] \in Weight /\ weight["FACH"] \in Weight /\ weight["DCH"] \in Weight
    BY <2>1 DEF MobileState
  <2>4. /\ weight["IDLE"].time \in Nat /\ weight["IDLE"].of \in Nat \ {0}
        /\ weight["FACH"].time \in Nat /\ weight["FACH"].of \in Nat \ {0}
        /\ weight["DCH"].time \in Nat /\ weight["DCH"].of \in Nat \ {0}
    BY <2>3 DEF Weight
  <2>5. PICK low \in MobileState : \A s \in MobileState : cost[low] <= cost[s]
    BY <2>3 DEF MobileState
  <2>6. PICK high \in MobileState : \A s \in MobileState : cost[s] <= cost[high]
    BY <2>3 DEF MobileState
  <2>7. cost[low] \in Nat /\ cost[high] \in Nat
    BY <2>1
  <2>8. /\ cost[low] <= cost["IDLE"] /\ cost[low] <= cost["FACH"] /\ cost[low] <= cost["DCH"]
        /\ cost["IDLE"] <= cost[high] /\ cost["FACH"] <= cost[high]
        /\ cost["DCH"] <= cost[high]
    BY <2>5, <2>6 DEF MobileState
  <2>9. cost[low] * first < (average + 1) * last /\ average * first <= cost[high] * last
    <3> DEFINE x == cost["IDLE"]  y == cost["FACH"]  z == cost["DCH"]
               u == weight["IDLE"].time  v == weight["FACH"].time  w == weight["DCH"].time
               b == weight["FACH"].of
    <3>1. average = (x * u * b * last + y * v * first * last + z * w * first * b)
                       \div (first * b * last)
      BY DEF AverageAnswer
    <3> HIDE DEF x, y, z, u, v, w, b, first, last, average
    <3>2. /\ x \in Nat /\ y \in Nat /\ z \in Nat /\ u \in Nat /\ v \in Nat /\ w \in Nat
          /\ first \in Nat \ {0} /\ b \in Nat \ {0} /\ last \in Nat \ {0}
          /\ first <= b /\ b <= last /\ first <= u + v + w /\ u + v + w <= last
          /\ cost[low] <= x /\ cost[low] <= y /\ cost[low] <= z
          /\ x <= cost[high] /\ y <= cost[high] /\ z <= cost[high]
      BY <2>2, <2>3, <2>4, <2>8 DEF x, y, z, u, v, w, b, first, last
    <3> QED
      BY <2>7, <3>1, <3>2, WeighedAverage
  <2>10. /\ \E s \in MobileState : cost[s] * first < (average + 1) * last
         /\ \E s \in MobileState : average * first <= cost[s] * last
    BY <2>9
  <2> QED
    BY <2>10 DEF AverageWithinExtremes, cost, weight
<1>2. QueriesInit => WeightsHold
  BY DEF QueriesInit, NoQuery, WeightsHold
<1>3. QueryInv /\ QueryInv' /\ WeightsHold /\ [QueriesNext]_queriesvars => WeightsHold'
  BY WeightsHoldNext DEF QueryInv
<1> QED
  BY <1>1, <1>2, <1>3, QueryInvOfQueries, PTL DEF QueriesSpec
=============================================================================
