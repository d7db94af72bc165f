---------------------------- MODULE HandsetProofs ----------------------------
(***************************************************************************)
(* Theorems about Handset: each tracker runs inside it as it runs alone,   *)
(* no cellular byte is charged twice, the energy follows time, and every   *)
(* activity on the cellular interface is reported.                         *)
(***************************************************************************)
EXTENDS Handset, MobileTrackerProofs

(* The composition runs the two trackers.                                  *)

LEMMA MobileStep == [HandsetNext]_handsetvars => [MobileNext]_mobilevars
<1> SUFFICES ASSUME [HandsetNext]_handsetvars PROVE [MobileNext]_mobilevars
  OBVIOUS
<1>1. CASE UpdateEnergyStats
  <2>1. update_mobile_state
    BY <1>1 DEF UpdateEnergyStats, UpdateTrackers
  <2> QED
    BY <1>1, <2>1 DEF UpdateEnergyStats, Poll, MobileNext
<1>2. CASE HandsetTick \/ MobileTransfer \/ MobileDevChange
  BY <1>2 DEF HandsetTick, MobileTransfer, MobileDevChange, MobileNext
<1>3. CASE HandsetHorizon \/ HandsetReset
  BY <1>3 DEF HandsetHorizon, HandsetReset, MobileNext
<1>4. CASE WifiDevChange \/ RegisterCallback \/ UNCHANGED handsetvars
  BY <1>4 DEF WifiDevChange, RegisterCallback, handsetvars
<1> QED
  BY <1>1, <1>2, <1>3, <1>4 DEF HandsetNext

\* Every behaviour of the handset is one of the mobile tracker: what is proved of
\* MobileSpec holds of the handset.
THEOREM HandsetRunsMobileTracker == HandsetSpec => RunsMobileTracker
<1>1. HandsetInit => MobileInit
  BY DEF HandsetInit
<1> QED
  BY <1>1, MobileStep, PTL DEF HandsetSpec, RunsMobileTracker, MobileSpec

\* So the handset's radio keeps the promise of the abstract tail, whatever becomes of
\* either interface: the handset that RemoteReporting sets before its network.
THEOREM HandsetImplementsTail == HandsetSpec => ImplementsRadioTail
  BY HandsetRunsMobileTracker, Refinement, PTL DEF RunsMobileTracker

LEMMA WifiStep == [HandsetNext]_handsetvars => [Wifi!WifiNext]_(Wifi!wifivars)
<1> SUFFICES ASSUME [HandsetNext]_handsetvars
             PROVE  Wifi!WifiNext \/ UNCHANGED Wifi!wifivars
  OBVIOUS
<1>1. CASE UpdateEnergyStats
  BY <1>1 DEF UpdateEnergyStats, UpdateTrackers, Wifi!WifiPoll, Wifi!WifiNext
<1>2. CASE HandsetTick
  BY <1>2 DEF HandsetTick, Tick, wifistate, Wifi!WifiTick, Wifi!WifiNext,
     Wifi!rates, Wifi!counts
<1>3. CASE MobileTransfer \/ MobileDevChange
  BY <1>3 DEF MobileTransfer, Transfer, MobileDevChange, DevDown, DevUp, wifistate,
     Wifi!wifivars, Wifi!rates, Wifi!counts
<1>4. CASE WifiDevChange
  BY <1>4 DEF WifiDevChange, Wifi!WifiNext
<1>5. CASE HandsetHorizon
  BY <1>5 DEF HandsetHorizon, Horizon, handsetvars, mobilevars, wifistate,
     Wifi!WifiHorizon, Wifi!WifiNext, Wifi!wifivars, Wifi!rates, Wifi!counts
<1>6. CASE HandsetReset
  BY <1>6 DEF HandsetReset, Wifi!WifiNext
<1>7. CASE RegisterCallback \/ UNCHANGED handsetvars
  BY <1>7 DEF RegisterCallback, handsetvars, mobilevars, wifistate,
     Wifi!wifivars, Wifi!rates, Wifi!counts
<1> QED
  BY <1>1, <1>2, <1>3, <1>4, <1>5, <1>6, <1>7 DEF HandsetNext

\* Every behaviour of the handset is one of the wifi tracker.
THEOREM HandsetRunsWifiTracker == HandsetSpec => RunsWifiTracker
<1>1. HandsetInit => Wifi!WifiInit
  BY DEF HandsetInit
<1> QED
  BY <1>1, WifiStep, PTL DEF HandsetSpec, RunsWifiTracker, Wifi!WifiSpec
-----------------------------------------------------------------------------
(* No cellular byte is charged twice.                                      *)

\* Bytes the interface carried and no sample has seen.
UnsampledBytes == Delta["DOWN"] + Delta["UP"]

\* What has been charged leaves room, in what has been carried, for the bytes that
\* are still to be sampled; before the baseline nothing has been charged.
ChargedInv ==
    /\ carried_bytes \in Nat
    /\ mobile_data_consumed_bytes \in Int
    /\ mobile_last_bytes["DOWN"] = -1 => mobile_data_consumed_bytes <= 0
    /\ mobile_last_bytes["DOWN"] # -1 =>
          mobile_data_consumed_bytes + UnsampledBytes <= carried_bytes

\* What holds of the tracker alone while its counters can be read.
MInv == TInv /\ CounterOrder /\ Bounded /\ QInv

LEMMA MInvNext ==
    ASSUME FaultFree, MInv, [MobileNext]_mobilevars
    PROVE  MInv'
BY TInvNext, CounterOrderNext, BoundedNext, QInvNext DEF MInv, FaultFree

LEMMA MInvInit ==
    ASSUME FaultFree, MobileInit
    PROVE  MInv
<1>1. QInv
  BY DEF MobileInit, QInv, QueueIsFresh, NoQueueUnsampled
<1> QED
  BY <1>1, TInvInit, CounterOrderInit, BoundedInit DEF MInv, FaultFree

\* The counters are integers, so all of what is added up here is.
LEMMA ByteTypes ==
    ASSUME MInv
    PROVE  /\ \A d \in Direction : /\ mobile_dev.bytes[d] \in Nat
                                   /\ mobile_last_bytes[d] \in Int
                                   /\ Delta[d] \in Int
                                   /\ Delta[d] >= 0
           /\ UnsampledBytes \in Nat
<1>1. \A d \in Direction : mobile_dev.bytes[d] \in Nat /\ mobile_last_bytes[d] \in Int
  BY OperatorTypes DEF MInv, TInv, TypeOK
<1>2. \A d \in Direction : Delta[d] \in Int /\ Delta[d] >= 0
  BY <1>1 DEF Delta, MInv, CounterOrder
<1> QED
  BY <1>1, <1>2 DEF UnsampledBytes, Direction

\* A poll charges the bytes of the sample it ends with, or none.
LEMMA BytesOfCharge ==
    ASSUME UpdateEnergyStats
    PROVE  mobile_data_consumed_bytes' \in
              {mobile_data_consumed_bytes,
               mobile_data_consumed_bytes + mobile_last_delta_bytes'["DOWN"]
                                          + mobile_last_delta_bytes'["UP"]}
BY DEF UpdateEnergyStats, Stats!update_consumption_stats, Stats!Charge, Stats!statsvars

LEMMA ChargedByPoll ==
    ASSUME FaultFree, MInv, ChargedInv, UpdateEnergyStats
    PROVE  ChargedInv'
<1>0. /\ mobile_dev' = mobile_dev /\ carried_bytes' = carried_bytes
      /\ update_mobile_state /\ CanRead
  BY AlwaysReadable DEF UpdateEnergyStats, UpdateTrackers, MInv
<1>1. CASE UpdateBaseline
  <2>1. /\ mobile_last_bytes' = mobile_dev.bytes
        /\ mobile_last_bytes["DOWN"] = -1
        /\ mobile_last_delta_bytes' = NoCount
    BY <1>1 DEF UpdateBaseline, Stored, MInv, QInv, NoQueueUnsampled
  <2>2. mobile_data_consumed_bytes' = mobile_data_consumed_bytes
    BY <2>1, BytesOfCharge DEF ChargedInv, NoCount, Direction
  <2>3. UnsampledBytes' = 0
    BY <1>0, <2>1, ByteTypes DEF UnsampledBytes, Delta, Direction
  <2>4. mobile_last_bytes'["DOWN"] # -1
    BY <2>1, ByteTypes DEF Direction
  <2> QED
    BY <1>0, <2>1, <2>2, <2>3, <2>4 DEF ChargedInv
<1>2. CASE UpdateActivity
  <2>1. /\ mobile_last_bytes' = mobile_dev.bytes
        /\ mobile_last_bytes["DOWN"] # -1
        /\ mobile_last_delta_bytes' = Delta
    BY <1>2 DEF UpdateActivity, Stored
  <2>2. mobile_data_consumed_bytes' \in
           {mobile_data_consumed_bytes, mobile_data_consumed_bytes + UnsampledBytes}
    BY <2>1, ByteTypes, BytesOfCharge DEF ChargedInv, UnsampledBytes, Direction
  <2>3. UnsampledBytes' = 0
    BY <1>0, <2>1, ByteTypes DEF UnsampledBytes, Delta, Direction
  <2>4. mobile_last_bytes'["DOWN"] # -1
    BY <2>1, ByteTypes DEF Direction
  <2>5. /\ mobile_data_consumed_bytes' \in Int
        /\ mobile_data_consumed_bytes' <= carried_bytes
    BY <2>1, <2>2, ByteTypes DEF ChargedInv
  <2>6. \A c, k, u \in Int : c <= k /\ u = 0 => c + u <= k
    OBVIOUS
  <2>7. carried_bytes \in Nat
    BY DEF ChargedInv
  <2>8. mobile_data_consumed_bytes' + UnsampledBytes' <= carried_bytes'
    <3>1. carried_bytes' \in Int /\ mobile_data_consumed_bytes' <= carried_bytes'
      BY <1>0, <2>5, <2>7
    <3>2. UnsampledBytes' \in Int
      BY <2>3
    <3> HIDE DEF UnsampledBytes
    <3> QED
      BY <2>3, <2>5, <2>6, <3>1, <3>2
  <2> QED
    BY <1>0, <2>4, <2>5, <2>7, <2>8 DEF ChargedInv
<1>3. CASE UpdateQuiet
  <2>1. mobile_last_bytes' = mobile_last_bytes /\ mobile_last_delta_bytes' = NoCount
    BY <1>3 DEF UpdateQuiet, QuietDelta
  <2>2. mobile_data_consumed_bytes' = mobile_data_consumed_bytes
    BY <2>1, BytesOfCharge DEF ChargedInv, NoCount, Direction
  <2> QED
    BY <1>0, <2>1, <2>2 DEF ChargedInv, UnsampledBytes, Delta
<1> QED
  BY <1>0, <1>1, <1>2, <1>3 DEF update_mobile_state, UpdateReadFails

LEMMA ChargedByTransfer ==
    ASSUME MInv, ChargedInv, MobileTransfer
    PROVE  ChargedInv'
<1>1. PICK d \in Direction, n \in Transfers :
         mobile_dev' = [mobile_dev EXCEPT !.bytes[d] = @ + n]
  BY DEF MobileTransfer, Transfer
<1>2. n \in Nat /\ mobile_dev \in [up : BOOLEAN, bytes : [Direction -> Nat]]
  BY <1>1, ConstantTypes DEF MInv, TInv, TypeOK
<1>3. mobile_dev'.bytes = [mobile_dev.bytes EXCEPT ![d] = @ + n]
  BY <1>1, <1>2
<1>4. /\ mobile_dev'.bytes["DOWN"] \in Nat /\ mobile_dev'.bytes["UP"] \in Nat
      /\ mobile_dev'.bytes["DOWN"] + mobile_dev'.bytes["UP"]
            = mobile_dev.bytes["DOWN"] + mobile_dev.bytes["UP"] + n
  BY <1>2, <1>3 DEF Direction
<1>5. /\ mobile_last_bytes' = mobile_last_bytes
      /\ mobile_data_consumed_bytes' = mobile_data_consumed_bytes
      /\ carried_bytes' = carried_bytes + mobile_dev'.bytes["DOWN"] - mobile_dev.bytes["DOWN"]
                                        + mobile_dev'.bytes["UP"] - mobile_dev.bytes["UP"]
  BY DEF MobileTransfer, Transfer, estimate, statistics
<1>6. carried_bytes' = carried_bytes + n
  BY <1>2, <1>4, <1>5, ByteTypes DEF ChargedInv, Direction
<1>7. UnsampledBytes' = UnsampledBytes + n
  <2>1. UnsampledBytes' = (mobile_dev'.bytes["DOWN"] - mobile_last_bytes["DOWN"])
                          + (mobile_dev'.bytes["UP"] - mobile_last_bytes["UP"])
    BY <1>5 DEF UnsampledBytes, Delta, Direction
  <2>2. UnsampledBytes = (mobile_dev.bytes["DOWN"] - mobile_last_bytes["DOWN"])
                         + (mobile_dev.bytes["UP"] - mobile_last_bytes["UP"])
    BY DEF UnsampledBytes, Delta, Direction
  <2> QED
    BY <1>2, <1>4, <2>1, <2>2, ByteTypes DEF Direction
<1> QED
  BY <1>2, <1>5, <1>6, <1>7, ByteTypes DEF ChargedInv

LEMMA ChargedInvNext ==
    ASSUME FaultFree, MInv, ChargedInv, [HandsetNext]_handsetvars
    PROVE  ChargedInv'
<1>1. CASE UpdateEnergyStats
  BY <1>1, ChargedByPoll
<1>2. CASE MobileTransfer
  BY <1>2, ChargedByTransfer
<1>3. CASE HandsetReset
  BY <1>3 DEF HandsetReset, ResetStats, Stats!ResetStatistics, ChargedInv, Unsampled,
     Direction
<1>4. CASE UNCHANGED <<mobile_dev, mobile_last_bytes, carried_bytes,
                       mobile_data_consumed_bytes>>
  BY <1>4 DEF ChargedInv, UnsampledBytes, Delta
<1>5. CASE MobileDevChange
  <2>1. FALSE
    BY <1>5 DEF MobileDevChange, DevDown, DevUp, FaultFree, MInv, CounterOrder
  <2> QED
    BY <2>1
<1>6. CASE HandsetTick \/ HandsetHorizon
  BY <1>4, <1>6 DEF HandsetTick, Tick, HandsetHorizon, handsetvars, mobilevars,
     estimate, statistics
<1>7. CASE WifiDevChange \/ RegisterCallback \/ UNCHANGED handsetvars
  BY <1>4, <1>7 DEF WifiDevChange, RegisterCallback, handsetvars, mobilevars,
     estimate, statistics
<1> QED
  BY <1>1, <1>2, <1>3, <1>5, <1>6, <1>7 DEF HandsetNext

\* mobile_bytes_consumed_since_reset never exceeds the number of bytes the
\* interface carried since the reset, as long as its counters can be read.
THEOREM BytesChargedOnce ==
    ASSUME FaultFree
    PROVE  HandsetSpec => []NoByteCountedTwice
<1>1. HandsetInit => MInv /\ ChargedInv
  <2> SUFFICES ASSUME HandsetInit PROVE MInv /\ ChargedInv
    OBVIOUS
  <2>1. MobileInit /\ Stats!StatsInit /\ carried_bytes = 0
    BY DEF HandsetInit
  <2>2. mobile_last_bytes["DOWN"] = -1
    BY <2>1 DEF MobileInit, Unsampled, Direction
  <2> QED
    BY <2>1, <2>2, MInvInit DEF ChargedInv, Stats!StatsInit
<1>2. MInv /\ ChargedInv /\ [HandsetNext]_handsetvars => (MInv /\ ChargedInv)'
  BY MInvNext, MobileStep, ChargedInvNext
<1>3. MInv /\ ChargedInv => NoByteCountedTwice
  BY ByteTypes DEF ChargedInv, NoByteCountedTwice
<1> QED
  BY <1>1, <1>2, <1>3, PTL DEF HandsetSpec
-----------------------------------------------------------------------------
(* Interfaces that never restart: rates, reports and charges are counts.   *)

\* The wifi counters only grow, so the rates are of traffic, not of its opposite.
WifiOrder ==
    /\ Wifi!WifiTypeOK
    /\ last_wifi_observation <= now
    /\ wifi_dev.up
    /\ \A d \in Direction : /\ wifi_last_bytes[d] <= wifi_dev.bytes[d]
                            /\ wifi_last_packets[d] <= wifi_dev.packets[d]
    /\ \/ wifi_data_rates = Unsampled /\ wifi_packet_rates = Unsampled
       \/ \A d \in Direction : wifi_data_rates[d] >= 0

\* The wifi tracker and the statistics share the operators of the platform.
LEMMA SharedOperators ==
    /\ Wifi!Direction = Direction
    /\ Wifi!Unsampled = Unsampled
    /\ Wifi!NoCount = NoCount
  BY DEF Wifi!Direction, Direction, Wifi!Unsampled, Unsampled, Wifi!NoCount, NoCount

LEMMA WifiConstants ==
    /\ SECOND \in Nat /\ SECOND > 0
    /\ WIFI_PACKET_RATE_THRESHOLD \in Nat
    /\ Direction = {"DOWN", "UP"}
    /\ NoCount \in [Direction -> Nat]
    /\ Unsampled \in [Direction -> Int] /\ Unsampled \notin [Direction -> Nat]
    /\ \A d \in Direction : Unsampled[d] = -1 /\ NoCount[d] = 0
  BY SecondAssumption, PowerAssumption DEF Direction, NoCount, Unsampled,
     Stats!PowerTypes

\* Rates are integers, and those of counters that have not run backwards are not
\* negative.
LEMMA RatesOfCounts ==
    ASSUME NEW current \in [Direction -> Nat], NEW last,
           NEW duration \in Nat, duration > 0,
           \A d \in Direction : last[d] \in Int /\ last[d] <= current[d]
    PROVE  /\ Wifi!CalcRates(current, last, duration) \in [Direction -> Int]
           /\ \A d \in Direction : Wifi!CalcRates(current, last, duration)[d] >= 0
<1>1. ASSUME NEW d \in Direction
      PROVE  Wifi!CeilDiv((current[d] - last[d]) * SECOND, duration) \in Nat
  <2> DEFINE a == (current[d] - last[d]) * SECOND
             q == (-a) \div duration
  <2>1. a \in Nat
    <3>1. current[d] - last[d] \in Nat
      OBVIOUS
    <3>2. \A n \in Nat : n * SECOND \in Nat
      BY WifiConstants
    <3> QED
      BY <3>1, <3>2
  <2> HIDE DEF a
  <2>2. q \in Int /\ duration * q <= -a
    BY <2>1
  <2> HIDE DEF q
  <2>3. ASSUME q > 0 PROVE FALSE
    <3>1. duration * q > 0
      BY <2>2, <2>3
    <3> QED
      BY <2>1, <2>2, <3>1
  <2>4. -q \in Nat
    BY <2>2, <2>3
  <2> QED
    BY <2>4 DEF q, a, Wifi!CeilDiv
<1> QED
  BY <1>1, SharedOperators DEF Wifi!CalcRates

LEMMA WifiOrderInit ==
    ASSUME ~IFACE_RESTARTS, Wifi!WifiInit
    PROVE  WifiOrder
<1> USE WifiConstants, SharedOperators
<1>1. wifi_dev = [up |-> TRUE, bytes |-> NoCount, packets |-> NoCount]
  BY DEF Wifi!WifiInit
<1>2. Wifi!WifiTypeOK
  BY <1>1, ConstantTypes DEF Wifi!WifiInit, Wifi!WifiTypeOK
<1> QED
  BY <1>1, <1>2, ConstantTypes DEF Wifi!WifiInit, WifiOrder

\* A transfer adds to the counters.
LEMMA BurstAdds ==
    ASSUME WifiOrder, Wifi!WifiTransfer
    PROVE  WifiOrder'
<1> USE WifiConstants, SharedOperators
<1>1. PICK d \in Direction, burst \in WifiBursts :
        wifi_dev' = [wifi_dev EXCEPT !.packets[d] = @ + burst.packets,
                                     !.bytes[d] = @ + burst.bytes]
  BY DEF Wifi!WifiTransfer
<1>2. burst.packets \in Nat /\ burst.bytes \in Nat
  BY <1>1, BurstAssumption
<1>3. wifi_dev \in [up : BOOLEAN, bytes : [Direction -> Nat], packets : [Direction -> Nat]]
  BY DEF WifiOrder, Wifi!WifiTypeOK
<1>4. wifi_dev' = [up |-> wifi_dev.up,
                   bytes |-> [wifi_dev.bytes EXCEPT ![d] = @ + burst.bytes],
                   packets |-> [wifi_dev.packets EXCEPT ![d] = @ + burst.packets]]
  BY <1>1, <1>3
<1>5. /\ wifi_dev' \in [up : BOOLEAN, bytes : [Direction -> Nat],
                        packets : [Direction -> Nat]]
      /\ wifi_dev'.up = wifi_dev.up
      /\ \A e \in Direction : /\ wifi_dev.bytes[e] <= wifi_dev'.bytes[e]
                              /\ wifi_dev.packets[e] <= wifi_dev'.packets[e]
  BY <1>2, <1>3, <1>4
<1>6. /\ now' = now /\ last_poll' = last_poll
      /\ UNCHANGED <<wifi_data_rates, wifi_packet_rates, wifi_last_bytes,
                     wifi_last_packets, last_wifi_observation>>
  BY DEF Wifi!WifiTransfer, Wifi!rates, Wifi!counts
<1>7. \A e \in Direction : wifi_last_bytes[e] \in Int /\ wifi_last_packets[e] \in Int
  BY DEF WifiOrder, Wifi!WifiTypeOK
<1>8. \A a, b, c \in Int : a <= b /\ b <= c => a <= c
  OBVIOUS
<1>9. \A e \in Direction : /\ wifi_last_bytes[e] <= wifi_dev'.bytes[e]
                           /\ wifi_last_packets[e] <= wifi_dev'.packets[e]
  <2> SUFFICES ASSUME NEW e \in Direction
               PROVE  /\ wifi_last_bytes[e] <= wifi_dev'.bytes[e]
                      /\ wifi_last_packets[e] <= wifi_dev'.packets[e]
    OBVIOUS
  <2>1. /\ wifi_dev.bytes[e] \in Int /\ wifi_dev'.bytes[e] \in Int
        /\ wifi_dev.packets[e] \in Int /\ wifi_dev'.packets[e] \in Int
    BY <1>3, <1>5
  <2> QED
    BY <1>5, <1>7, <1>8, <2>1 DEF WifiOrder
<1>10. Wifi!WifiTypeOK'
  BY <1>5, <1>6 DEF WifiOrder, Wifi!WifiTypeOK
<1> QED
  BY <1>5, <1>6, <1>9, <1>10 DEF WifiOrder

\* A poll that observes, brings the counts up to date; its rates are of counters
\* that have not run backwards.
LEMMA WifiOrderUpdate ==
    ASSUME WifiOrder, Wifi!update_wifi_estimated_rates,
           now' = now, wifi_dev' = wifi_dev, last_poll' = now
    PROVE  WifiOrder'
<1> USE WifiConstants, SharedOperators
<1>0. /\ now \in Nat /\ last_wifi_observation \in Nat
      /\ wifi_dev \in [up : BOOLEAN, bytes : [Direction -> Nat],
                       packets : [Direction -> Nat]]
      /\ \A e \in Direction : wifi_last_bytes[e] \in Int /\ wifi_last_packets[e] \in Int
      /\ wifi_dev.bytes \in [Direction -> Nat] /\ wifi_dev.packets \in [Direction -> Nat]
  BY DEF WifiOrder, Wifi!WifiTypeOK
<1>1. CASE Wifi!WifiReadFails \/ Wifi!WifiTooSoon
  BY <1>1 DEF Wifi!WifiReadFails, Wifi!WifiTooSoon, Wifi!rates, Wifi!counts, WifiOrder,
     Wifi!WifiTypeOK
<1>2. CASE Wifi!WifiFirstObservation
  <2>1. /\ UNCHANGED <<wifi_data_rates, wifi_packet_rates>>
        /\ wifi_last_bytes' = wifi_dev.bytes /\ wifi_last_packets' = wifi_dev.packets
        /\ last_wifi_observation' = now
    BY <1>2 DEF Wifi!WifiFirstObservation, Wifi!rates, Wifi!StoreCounts
  <2>2. Wifi!WifiTypeOK'
    BY <1>0, <2>1 DEF WifiOrder, Wifi!WifiTypeOK
  <2> QED
    BY <1>0, <2>1, <2>2 DEF WifiOrder
<1>3. CASE Wifi!WifiObservation
  <2> DEFINE duration == now - last_wifi_observation
  <2>1. /\ wifi_data_rates' = Wifi!CalcRates(wifi_dev.bytes, wifi_last_bytes, duration)
        /\ wifi_packet_rates' =
              Wifi!CalcRates(wifi_dev.packets, wifi_last_packets, duration)
        /\ wifi_last_bytes' = wifi_dev.bytes /\ wifi_last_packets' = wifi_dev.packets
        /\ last_wifi_observation' = now
    BY <1>3 DEF Wifi!WifiObservation, Wifi!StoreCounts, Wifi!SinceObservation
  <2>2. duration \in Nat /\ duration > 0
    BY <1>0, <1>3 DEF Wifi!WifiObservation, Wifi!SinceObservation,
       Wifi!HasElapsedSecond
  <2> HIDE DEF duration
  <2>3. /\ \A d \in Direction : wifi_last_bytes[d] \in Int
                                /\ wifi_last_bytes[d] <= wifi_dev.bytes[d]
        /\ \A d \in Direction : wifi_last_packets[d] \in Int
                                /\ wifi_last_packets[d] <= wifi_dev.packets[d]
    BY <1>0 DEF WifiOrder
  <2>4. /\ wifi_data_rates' \in [Direction -> Int]
        /\ \A d \in Direction : wifi_data_rates'[d] >= 0
    BY <1>0, <2>1, <2>2, <2>3, RatesOfCounts
  <2>5. wifi_packet_rates' \in [Direction -> Int]
    BY <1>0, <2>1, <2>2, <2>3, RatesOfCounts
  <2>6. Wifi!WifiTypeOK'
    BY <1>0, <2>1, <2>4, <2>5 DEF WifiOrder, Wifi!WifiTypeOK
  <2> QED
    BY <1>0, <2>1, <2>4, <2>6 DEF WifiOrder
<1> QED
  BY <1>1, <1>2, <1>3 DEF Wifi!update_wifi_estimated_rates

LEMMA WifiOrderNext ==
    ASSUME ~IFACE_RESTARTS, WifiOrder, [Wifi!WifiNext]_(Wifi!wifivars)
    PROVE  WifiOrder'
<1> USE WifiConstants, SharedOperators
<1>0. /\ now \in Nat /\ last_wifi_observation \in Nat /\ last_poll \in Nat
      /\ wifi_dev \in [up : BOOLEAN, bytes : [Direction -> Nat],
                       packets : [Direction -> Nat]]
  BY DEF WifiOrder, Wifi!WifiTypeOK
<1>1. CASE Wifi!WifiTick
  <2>1. /\ now' \in Nat /\ now <= now'
        /\ UNCHANGED <<wifi_dev, wifi_data_rates, wifi_packet_rates, wifi_last_bytes,
                       wifi_last_packets, last_wifi_observation, last_poll>>
    BY <1>0, <1>1 DEF Wifi!WifiTick, Wifi!rates, Wifi!counts
  <2>2. Wifi!WifiTypeOK'
    BY <2>1 DEF WifiOrder, Wifi!WifiTypeOK
  <2> QED
    BY <1>0, <2>1, <2>2 DEF WifiOrder
<1>2. CASE Wifi!WifiTransfer
  BY <1>2, BurstAdds
<1>3. CASE Wifi!WifiPoll
  BY <1>3, WifiOrderUpdate DEF Wifi!WifiPoll
<1>4. CASE Wifi!WifiReset
  <2>1. /\ wifi_data_rates' = Unsampled /\ wifi_packet_rates' = Unsampled
        /\ wifi_last_bytes' = Unsampled /\ wifi_last_packets' = Unsampled
        /\ last_wifi_observation' = now /\ last_poll' = now /\ now' = now
    BY <1>4 DEF Wifi!WifiReset, Wifi!ResetWifiState
  <2>2. wifi_dev' \in {wifi_dev, [up |-> wifi_dev.up, bytes |-> NoCount,
                                  packets |-> NoCount]}
    <3>1. wifi_dev' \in {wifi_dev, [wifi_dev EXCEPT !.bytes = NoCount,
                                                    !.packets = NoCount]}
      BY <1>4 DEF Wifi!WifiReset
    <3> QED
      BY <1>0, <3>1
  <2>3. /\ wifi_dev' \in [up : BOOLEAN, bytes : [Direction -> Nat],
                          packets : [Direction -> Nat]]
        /\ wifi_dev'.up
        /\ \A d \in Direction : -1 <= wifi_dev'.bytes[d] /\ -1 <= wifi_dev'.packets[d]
    <3>1. CASE wifi_dev' = wifi_dev
      BY <1>0, <3>1 DEF WifiOrder
    <3>2. CASE wifi_dev' = [up |-> wifi_dev.up, bytes |-> NoCount, packets |-> NoCount]
      BY <1>0, <3>2 DEF WifiOrder
    <3> QED
      BY <2>2, <3>1, <3>2
  <2>4. Wifi!WifiTypeOK'
    BY <1>0, <2>1, <2>3 DEF WifiOrder, Wifi!WifiTypeOK
  <2> QED
    BY <1>0, <2>1, <2>3, <2>4 DEF WifiOrder
<1>5. CASE UNCHANGED Wifi!wifivars
  BY <1>5 DEF Wifi!wifivars, Wifi!rates, Wifi!counts, WifiOrder, Wifi!WifiTypeOK
<1> QED
  BY <1>1, <1>2, <1>3, <1>4, <1>5 DEF Wifi!WifiNext, Wifi!WifiDown, Wifi!WifiUp,
     Wifi!WifiHorizon, WifiOrder

\* In a second the radios use no less than they do when both are at rest: the rates
\* of a wifi radio that counts as busy are known, and so not negative.
LEMMA PowerOfASecond ==
    ASSUME NEW s \in MobileState, NEW r \in [Direction -> Int], NEW u \in Int,
           r = Unsampled \/ u >= 0
    PROVE  /\ Stats!WifiPower(Wifi!PacketRate(r), u) + Stats!power_coeff(s) \in Nat
           /\ Stats!WifiPower(Wifi!PacketRate(r), u) + Stats!power_coeff(s)
                 >= Stats!LeastNetworking
           /\ Wifi!PacketRate(r) \in Int
<1>0. /\ {MOBILE_IDLE_POWER, MOBILE_FACH_POWER, MOBILE_DCH_POWER} \subseteq Nat
      /\ MOBILE_IDLE_POWER <= MOBILE_FACH_POWER
      /\ MOBILE_FACH_POWER <= MOBILE_DCH_POWER
      /\ {WIFI_HIGH_POWER_BASE, WIFI_LOW_POWER} \subseteq Nat
      /\ WIFI_LOW_POWER <= WIFI_HIGH_POWER_BASE
      /\ WIFI_PACKET_RATE_THRESHOLD \in Nat
      /\ MBPS \in Nat \ {0}
      /\ CHANNEL_RATE_POWER \in Nat
  BY PowerAssumption DEF Stats!PowerTypes
<1>1. Stats!power_coeff(s) \in Nat /\ Stats!power_coeff(s) >= MOBILE_IDLE_POWER
  BY <1>0 DEF Stats!power_coeff, MobileState
<1>2. Wifi!PacketRate(r) \in Int /\ (r = Unsampled => Wifi!PacketRate(r) = -2)
  BY WifiConstants DEF Wifi!PacketRate
<1>3. u >= 0 => Stats!wifi_channel_rate_component(u) \in Nat
  <2> SUFFICES ASSUME u >= 0 PROVE Stats!wifi_channel_rate_component(u) \in Nat
    OBVIOUS
  <2>1. \A n \in Nat, m \in Nat \ {0} : n \div m \in Nat
    OBVIOUS
  <2>2. \A n \in Nat, m \in Nat \ {0} : Stats!Truncated(n, m) \in Nat
    BY <2>1 DEF Stats!Truncated
  <2>3. Stats!Truncated(u, MBPS) \in Nat
    BY <1>0, <2>2
  <2>4. CHANNEL_RATE_POWER * Stats!Truncated(u, MBPS) \in Nat
    <3>1. \A m, n \in Nat : m * n \in Nat
      OBVIOUS
    <3> QED
      BY <1>0, <2>3, <3>1
  <2> QED
    BY <2>2, <2>4 DEF Stats!wifi_channel_rate_component
<1>4. /\ Stats!WifiPower(Wifi!PacketRate(r), u) \in Nat
      /\ Stats!WifiPower(Wifi!PacketRate(r), u) >= WIFI_LOW_POWER
  BY <1>0, <1>2, <1>3 DEF Stats!WifiPower, Stats!WifiHigh
<1> QED
  BY <1>0, <1>1, <1>2, <1>4 DEF Stats!LeastNetworking

\* What is known of the two trackers while neither interface restarts.
TrackersInv == TInv /\ CounterOrder /\ SampleNonNegative /\ WifiOrder

LEMMA TrackersInvInit ==
    ASSUME ~IFACE_RESTARTS, HandsetInit
    PROVE  TrackersInv
<1>1. MobileInit /\ Wifi!WifiInit
  BY DEF HandsetInit
<1>2. SampleNonNegative
  BY <1>1 DEF MobileInit, SampleNonNegative, NoCount
<1> QED
  BY <1>1, <1>2, TInvInit, CounterOrderInit, WifiOrderInit DEF TrackersInv

LEMMA TrackersInvNext ==
    ASSUME ~IFACE_RESTARTS, TrackersInv, [HandsetNext]_handsetvars
    PROVE  TrackersInv'
BY MobileStep, WifiStep, TInvNext, CounterOrderNext, SampleNonNegativeNext,
   WifiOrderNext DEF TrackersInv

\* A poll charges a second, at no less than the power at rest, or it comes too soon.
LEMMA ChargeOfPoll ==
    ASSUME TrackersInv, TrackersInv', UpdateEnergyStats, last_update \in Nat
    PROVE  \/ /\ UNCHANGED statistics
              /\ now < last_update + SECOND
           \/ /\ last_update' = now
              /\ now >= last_update + SECOND
              /\ mobile_data_consumed_bytes' =
                    mobile_data_consumed_bytes + mobile_last_delta_bytes'["DOWN"]
                                               + mobile_last_delta_bytes'["UP"]
              /\ \E cpu \in CpuEnergies, networking \in Nat :
                    /\ networking >= Stats!LeastNetworking
                    /\ energy_consumed_mJ' =
                          [energy_consumed_mJ EXCEPT !["CPU"] = @ + cpu,
                                                     !["NETWORKING"] = @ + networking,
                                                     !["ALL"] = @ + cpu + networking]
<1>0. now \in Nat /\ SECOND \in Nat
  BY WifiConstants DEF TrackersInv, TInv, TypeOK
<1>1. Stats!ChargeDue <=> now >= last_update + SECOND
  BY <1>0 DEF Stats!ChargeDue, Stats!HasElapsedSecond
<1> DEFINE rate == Wifi!PacketRate(wifi_packet_rates')
           net  == Stats!WifiPower(rate, wifi_data_rates'["UP"])
                   + Stats!power_coeff(mobile_state')
<1>2. net \in Nat /\ net >= Stats!LeastNetworking
  <2>1. mobile_state' \in MobileState
    BY DEF TrackersInv, TInv, TypeOK
  <2>2. /\ wifi_packet_rates' \in [Direction -> Int]
        /\ wifi_data_rates' \in [Direction -> Int]
        /\ wifi_packet_rates' = Unsampled \/ wifi_data_rates'["UP"] >= 0
    BY WifiConstants, SharedOperators DEF TrackersInv, WifiOrder, Wifi!WifiTypeOK
  <2>3. wifi_data_rates'["UP"] \in Int
    BY <2>2, WifiConstants
  <2> QED
    BY <2>1, <2>2, <2>3, PowerOfASecond
<1>3. \/ Stats!Charge(mobile_state', rate, wifi_data_rates'["UP"], mobile_last_delta_bytes')
      \/ ~Stats!ChargeDue /\ UNCHANGED Stats!statsvars
  BY DEF UpdateEnergyStats, Stats!update_consumption_stats
<1>4. CASE ~Stats!ChargeDue /\ UNCHANGED Stats!statsvars
  BY <1>0, <1>1, <1>4 DEF Stats!statsvars, statistics
<1>5. CASE Stats!Charge(mobile_state', rate, wifi_data_rates'["UP"],
                        mobile_last_delta_bytes')
  <2>1. /\ Stats!ChargeDue
        /\ last_update' = now
        /\ mobile_data_consumed_bytes' =
              mobile_data_consumed_bytes + mobile_last_delta_bytes'["DOWN"]
                                         + mobile_last_delta_bytes'["UP"]
        /\ \E cpu \in CpuEnergies :
              energy_consumed_mJ' =
                 [energy_consumed_mJ EXCEPT !["CPU"] = @ + cpu,
                                            !["NETWORKING"] = @ + net,
                                            !["ALL"] = @ + cpu + net]
    BY <1>5 DEF Stats!Charge, Stats!Restamped
  <2> HIDE DEF net
  <2> QED
    BY <1>1, <1>2, <2>1
<1> QED
  BY <1>3, <1>4, <1>5
-----------------------------------------------------------------------------
(* The energy follows the time.                                            *)

\* Longest time between two charges.
LongestWait == SECOND + MaxPollGap - 1

\* The polls are regular, and each leaves less than a second uncharged.
ChargeTimes ==
    /\ last_update \in Nat
    /\ last_reset <= last_update
    /\ last_update <= now
    /\ last_poll < last_update + SECOND
    /\ now <= last_poll + MaxPollGap

\* The energy charged for the time up to the last charge.
EnergyBounds ==
    /\ energy_consumed_mJ \in [Stats!EnergyComponent -> Nat]
    /\ energy_consumed_mJ["NETWORKING"] * LongestWait
          >= Stats!LeastNetworking * (last_update - last_reset)
    /\ \E cpu \in CpuEnergies :
          energy_consumed_mJ["CPU"] * SECOND <= cpu * (last_update - last_reset)

LEMMA ProductOrder ==
    ASSUME NEW a \in Nat, NEW b \in Nat, NEW c \in Nat, NEW d \in Nat, a <= b, c <= d
    PROVE  a * c <= b * d
<1>1. a * c <= b * c
  OBVIOUS
<1>2. b * c <= b * d
  OBVIOUS
<1>3. a * c \in Nat /\ b * c \in Nat /\ b * d \in Nat
  OBVIOUS
<1> QED
  BY <1>1, <1>2, <1>3

\* One more charge of at least `least`, after at most `longest`.
LEMMA LeastGrows ==
    ASSUME NEW energy \in Nat, NEW charge \in Nat, NEW longest \in Nat, NEW least \in Nat,
           NEW charged \in Nat, NEW wait \in Nat,
           energy * longest >= least * charged, charge >= least, wait <= longest
    PROVE  (energy + charge) * longest >= least * (charged + wait)
<1>1. (energy + charge) * longest = energy * longest + charge * longest
  OBVIOUS
<1>2. least * (charged + wait) = least * charged + least * wait
  OBVIOUS
<1>3. least * wait <= charge * longest
  BY ProductOrder
<1>4. /\ energy * longest \in Nat /\ charge * longest \in Nat
      /\ least * charged \in Nat /\ least * wait \in Nat
  OBVIOUS
<1> QED
  BY <1>1, <1>2, <1>3, <1>4

\* One more charge of what the CPU may use in a second, after at least a second: the
\* larger of it and what it was charged at so far bounds both.
LEMMA MostGrows ==
    ASSUME NEW energy \in Nat, NEW charge \in Nat, NEW second \in Nat, NEW most \in Nat,
           NEW charged \in Nat, NEW wait \in Nat,
           energy * second <= most * charged, second <= wait
    PROVE  \E m \in {most, charge} : (energy + charge) * second <= m * (charged + wait)
<1>1. (energy + charge) * second = energy * second + charge * second
  OBVIOUS
<1>2. \A m \in Nat : m * (charged + wait) = m * charged + m * wait
  OBVIOUS
<1>3. CASE charge <= most
  <2>1. charge * second <= most * wait
    BY <1>3, ProductOrder
  <2>2. /\ energy * second \in Nat /\ charge * second \in Nat
        /\ most * charged \in Nat /\ most * wait \in Nat
    OBVIOUS
  <2>3. (energy + charge) * second <= most * (charged + wait)
    BY <1>1, <1>2, <2>1, <2>2
  <2> QED
    BY <2>3
<1>4. CASE most < charge
  <2>1. charge * second <= charge * wait
    BY ProductOrder
  <2>2. most * charged <= charge * charged
    BY <1>4, ProductOrder
  <2>3. /\ energy * second \in Nat /\ charge * second \in Nat /\ most * charged \in Nat
        /\ charge * charged \in Nat /\ charge * wait \in Nat
    OBVIOUS
  <2>4. (energy + charge) * second <= charge * (charged + wait)
    BY <1>1, <1>2, <2>1, <2>2, <2>3
  <2> QED
    BY <2>4
<1> QED
  BY <1>3, <1>4

LEMMA ChargeTimesNext ==
    ASSUME TrackersInv, TrackersInv', ChargeTimes, [HandsetNext]_handsetvars
    PROVE  ChargeTimes'
<1>0. /\ now \in Nat /\ last_poll \in Nat /\ last_reset \in Nat /\ last_update \in Nat
      /\ now' \in Nat /\ SECOND \in Nat /\ SECOND > 0
      /\ MaxPollGap \in Nat
  BY WifiConstants, PlatformAssumption DEF TrackersInv, TInv, TypeOK, ChargeTimes
<1>1. CASE UpdateEnergyStats
  <2>1. now' = now /\ last_poll' = now /\ last_reset' = last_reset
    BY <1>1 DEF UpdateEnergyStats
  <2>2. last_update' \in {last_update, now} /\ now < last_update' + SECOND
    BY <1>0, <1>1, ChargeOfPoll DEF statistics
  <2>3. last_update' \in Nat /\ last_reset <= last_update' /\ last_update' <= now
    BY <1>0, <2>2 DEF ChargeTimes, TrackersInv, TInv, Stamps
  <2>4. now <= now + MaxPollGap
    BY <1>0
  <2> QED
    BY <2>1, <2>2, <2>3, <2>4 DEF ChargeTimes
<1>2. CASE HandsetReset
  BY <1>0, <1>2 DEF HandsetReset, ResetStats, Stats!ResetStatistics, ChargeTimes
<1>3. CASE HandsetTick
  BY <1>0, <1>3 DEF HandsetTick, Tick, statistics, ChargeTimes
<1>4. CASE UNCHANGED <<now, last_poll, last_reset, last_update>>
  BY <1>4 DEF ChargeTimes
<1>5. CASE MobileTransfer \/ MobileDevChange \/ HandsetHorizon
  BY <1>4, <1>5 DEF MobileTransfer, Transfer, MobileDevChange, DevDown, DevUp,
     HandsetHorizon, handsetvars, mobilevars, statistics
<1>6. CASE WifiDevChange \/ RegisterCallback \/ UNCHANGED handsetvars
  BY <1>4, <1>6 DEF WifiDevChange, RegisterCallback, handsetvars, mobilevars, statistics
<1> QED
  BY <1>1, <1>2, <1>3, <1>5, <1>6 DEF HandsetNext

\* A charge extends both bounds over the time it is for.
LEMMA EnergyBoundsPoll ==
    ASSUME TrackersInv, TrackersInv', ChargeTimes, EnergyBounds, UpdateEnergyStats
    PROVE  EnergyBounds'
<1>0. last_reset' = last_reset
  BY DEF UpdateEnergyStats
<1>1. CASE UNCHANGED statistics
  BY <1>0, <1>1 DEF EnergyBounds, statistics
<1>2. CASE ~UNCHANGED statistics
  <2>1. PICK cpu \in CpuEnergies, networking \in Nat :
           /\ last_update' = now
           /\ now >= last_update + SECOND
           /\ networking >= Stats!LeastNetworking
           /\ energy_consumed_mJ' =
                 [energy_consumed_mJ EXCEPT !["CPU"] = @ + cpu,
                                            !["NETWORKING"] = @ + networking,
                                            !["ALL"] = @ + cpu + networking]
    BY <1>2, ChargeOfPoll DEF ChargeTimes
  <2>2. PICK most \in CpuEnergies :
           energy_consumed_mJ["CPU"] * SECOND <= most * (last_update - last_reset)
    BY DEF EnergyBounds
  <2>3. /\ cpu \in Nat /\ most \in Nat
        /\ Stats!LeastNetworking \in Nat
    BY <2>1, <2>2, PowerAssumption DEF Stats!PowerTypes, Stats!LeastNetworking
  <2> DEFINE charged == last_update - last_reset
             wait    == now - last_update
             network == energy_consumed_mJ["NETWORKING"]
             ofcpu   == energy_consumed_mJ["CPU"]
  <2>4. /\ now \in Nat /\ last_poll \in Nat /\ last_reset \in Nat /\ last_update \in Nat
        /\ SECOND \in Nat /\ SECOND > 0 /\ MaxPollGap \in Nat
    BY WifiConstants, PlatformAssumption DEF TrackersInv, TInv, TypeOK, ChargeTimes
  <2>5. /\ LongestWait \in Nat
        /\ charged \in Nat /\ wait \in Nat /\ SECOND <= wait /\ wait <= LongestWait
        /\ last_update' - last_reset' = charged + wait
    BY <1>0, <2>1, <2>4 DEF LongestWait, ChargeTimes
  <2>6. /\ network \in Nat /\ ofcpu \in Nat
        /\ energy_consumed_mJ'["NETWORKING"] = network + networking
        /\ energy_consumed_mJ'["CPU"] = ofcpu + cpu
        /\ energy_consumed_mJ' \in [Stats!EnergyComponent -> Nat]
    BY <2>1, <2>3 DEF EnergyBounds, Stats!EnergyComponent
  <2>7. network * LongestWait >= Stats!LeastNetworking * charged
    BY DEF EnergyBounds
  <2>8. ofcpu * SECOND <= most * charged
    BY <2>2
  <2> HIDE DEF charged, wait, network, ofcpu
  <2>9. (network + networking) * LongestWait >= Stats!LeastNetworking * (charged + wait)
    BY <2>1, <2>3, <2>5, <2>6, <2>7, LeastGrows
  <2>10. \E m \in {most, cpu} : (ofcpu + cpu) * SECOND <= m * (charged + wait)
    BY <2>3, <2>4, <2>5, <2>6, <2>8, MostGrows
  <2>11. energy_consumed_mJ'["NETWORKING"] * LongestWait
            >= Stats!LeastNetworking * (last_update' - last_reset')
    BY <2>5, <2>6, <2>9
  <2>12. \E m \in CpuEnergies :
            energy_consumed_mJ'["CPU"] * SECOND <= m * (last_update' - last_reset')
    <3>1. most \in CpuEnergies /\ cpu \in CpuEnergies
      BY <2>1, <2>2
    <3> QED
      BY <2>5, <2>6, <2>10, <3>1
  <2> QED
    BY <2>6, <2>11, <2>12 DEF EnergyBounds, LongestWait, Stats!LeastNetworking
<1> QED
  BY <1>1, <1>2

\* A charge of nothing for no time.
LEMMA EnergyBoundsFresh ==
    ASSUME NEW n \in Nat, NEW least \in Nat, NEW instant \in Nat, CpuEnergies # {}
    PROVE  /\ 0 * n >= least * (instant - instant)
           /\ \E cpu \in CpuEnergies : 0 * SECOND <= cpu * (instant - instant)
<1>1. instant - instant = 0 /\ SECOND \in Nat
  BY WifiConstants
<1>2. PICK cpu \in CpuEnergies : TRUE
  OBVIOUS
<1>3. cpu \in Nat
  BY PowerAssumption DEF Stats!PowerTypes
<1> QED
  BY <1>1, <1>2, <1>3

\* The statistics as a reset leaves them.
FreshlyReset ==
    /\ now \in Nat
    /\ last_update = now
    /\ last_reset = now
    /\ energy_consumed_mJ = [c \in Stats!EnergyComponent |-> 0]

LEMMA EnergyBoundsAfterReset ==
    ASSUME CpuEnergies # {}
    PROVE  FreshlyReset => EnergyBounds
<1> SUFFICES ASSUME FreshlyReset PROVE EnergyBounds
  OBVIOUS
<1> USE DEF FreshlyReset
<1>1. /\ LongestWait \in Nat /\ Stats!LeastNetworking \in Nat
  BY WifiConstants, PlatformAssumption, PowerAssumption
  DEF LongestWait, Stats!LeastNetworking, Stats!PowerTypes
<1>2. /\ energy_consumed_mJ["CPU"] = 0 /\ energy_consumed_mJ["NETWORKING"] = 0
      /\ energy_consumed_mJ \in [Stats!EnergyComponent -> Nat]
  BY DEF Stats!EnergyComponent
<1> QED
  BY <1>1, <1>2, EnergyBoundsFresh DEF EnergyBounds

LEMMA EnergyBoundsNext ==
    ASSUME CpuEnergies # {}, TrackersInv, TrackersInv', ChargeTimes, EnergyBounds,
           [HandsetNext]_handsetvars
    PROVE  EnergyBounds'
<1>1. CASE UpdateEnergyStats
  BY <1>1, EnergyBoundsPoll
<1>2. CASE HandsetReset
  <2>1. /\ last_update' = now' /\ last_reset' = now' /\ now' \in Nat
        /\ energy_consumed_mJ' = [c \in Stats!EnergyComponent |-> 0]
    BY <1>2 DEF HandsetReset, ResetStats, Stats!ResetStatistics, TrackersInv, TInv, TypeOK
  <2>2. FreshlyReset'
    BY <2>1 DEF FreshlyReset
  <2> QED
    BY <2>2, EnergyBoundsAfterReset, PTL
<1>3. CASE UNCHANGED <<last_reset, last_update, energy_consumed_mJ>>
  BY <1>3 DEF EnergyBounds
<1>4. CASE HandsetTick \/ MobileTransfer \/ MobileDevChange \/ HandsetHorizon
  BY <1>3, <1>4 DEF HandsetTick, Tick, MobileTransfer, Transfer, MobileDevChange, DevDown,
     DevUp, HandsetHorizon, handsetvars, mobilevars, statistics
<1>5. CASE WifiDevChange \/ RegisterCallback \/ UNCHANGED handsetvars
  BY <1>3, <1>5 DEF WifiDevChange, RegisterCallback, handsetvars, mobilevars, statistics
<1> QED
  BY <1>1, <1>2, <1>4, <1>5 DEF HandsetNext

\* The radios are charged at least their power at rest for the time up to the last
\* charge, less the parts of seconds lost by polling late; the CPU is charged at most
\* its most expensive second; and the time still uncharged is short.
THEOREM EnergyFollows ==
    ASSUME ~IFACE_RESTARTS, CpuEnergies # {}
    PROVE  HandsetSpec => []EnergyFollowsTime
<1>1. HandsetInit => TrackersInv
  BY TrackersInvInit
<1>2. HandsetInit => ChargeTimes /\ EnergyBounds
  <2> SUFFICES ASSUME HandsetInit PROVE ChargeTimes /\ EnergyBounds
    OBVIOUS
  <2>1. /\ now = StartTime /\ now \in Nat /\ last_poll = now /\ last_reset = now
        /\ last_update = now
        /\ energy_consumed_mJ = [c \in Stats!EnergyComponent |-> 0]
    BY ConstantTypes DEF HandsetInit, MobileInit, Stats!StatsInit
  <2>2. EnergyBounds
    BY <2>1, EnergyBoundsAfterReset DEF FreshlyReset
  <2> QED
    BY <2>1, <2>2, WifiConstants, PlatformAssumption DEF ChargeTimes
<1>3. TrackersInv /\ [HandsetNext]_handsetvars => TrackersInv'
  BY TrackersInvNext
<1>4. TrackersInv /\ TrackersInv' /\ ChargeTimes /\ [HandsetNext]_handsetvars
        => ChargeTimes'
  BY ChargeTimesNext
<1>5. TrackersInv /\ TrackersInv' /\ ChargeTimes /\ EnergyBounds /\ [HandsetNext]_handsetvars
        => EnergyBounds'
  BY EnergyBoundsNext
<1>6. TrackersInv /\ ChargeTimes /\ EnergyBounds => EnergyFollowsTime
  <2> SUFFICES ASSUME TrackersInv, ChargeTimes, EnergyBounds PROVE EnergyFollowsTime
    OBVIOUS
  <2>1. now - last_update <= LongestWait
    BY WifiConstants, PlatformAssumption
    DEF TrackersInv, TInv, TypeOK, ChargeTimes, LongestWait
  <2> QED
    BY <2>1 DEF EnergyBounds, EnergyFollowsTime, LongestWait
<1> QED
  BY <1>1, <1>2, <1>3, <1>4, <1>5, <1>6, PTL DEF HandsetSpec
-----------------------------------------------------------------------------
(* The types of the statistics and of the report.                          *)

LEMMA QueuesAreCounts ==
    TrackersInv => /\ QueueNow("DOWN") \in Nat
                   /\ QueueNow("UP") \in Nat
  BY QueueAddsUp, WifiConstants DEF TrackersInv

\* A poll reports a state and queue lengths that are counts.
LEMMA ReportTypes ==
    ASSUME TrackersInv', UpdateEnergyStats
    PROVE  report' = NoReport \/ report' \in [mobile_state : MobileState,
                                              mobile_queue_len : [Direction -> Nat],
                                              wifi_packet_rate : Int]
<1>1. CASE report' = NoReport
  BY <1>1
<1>2. CASE report' # NoReport
  <2> DEFINE queue(d) == QueueNow(d)'
             queues == [DOWN |-> queue("DOWN"), UP |-> queue("UP")]
             rate   == Wifi!PacketRate(wifi_packet_rates')
  <2>1. report' = [mobile_state |-> mobile_state', mobile_queue_len |-> queues,
                   wifi_packet_rate |-> rate]
    BY <1>2 DEF UpdateEnergyStats, ReportActivity
  <2>2. mobile_state' \in MobileState
    BY DEF TrackersInv, TInv, TypeOK
  <2>3. rate \in Int
    <3>1. wifi_packet_rates' \in [Direction -> Int]
      BY SharedOperators DEF TrackersInv, WifiOrder, Wifi!WifiTypeOK
    <3> QED
      BY <3>1, WifiConstants DEF Wifi!PacketRate
  <2>4. queue("DOWN") \in Nat /\ queue("UP") \in Nat
    <3>1. (/\ QueueNow("DOWN") \in Nat
           /\ QueueNow("UP") \in Nat)'
      BY QueuesAreCounts, PTL
    <3> QED
      BY <3>1
  <2> HIDE DEF queue, rate
  <2>5. queues \in [Direction -> Nat]
    BY <2>4, WifiConstants
  <2> HIDE DEF queues
  <2> QED
    BY <2>1, <2>2, <2>3, <2>5
<1> QED
  BY <1>1, <1>2

LEMMA HandsetTypeNext ==
    ASSUME TrackersInv, TrackersInv', HandsetTypeOK, [HandsetNext]_handsetvars
    PROVE  HandsetTypeOK'
<1>1. CASE UpdateEnergyStats
  <2>1. mobile_activity_callback' = mobile_activity_callback
    BY <1>1 DEF UpdateEnergyStats
  <2>2. CASE UNCHANGED statistics
    BY <1>1, <2>1, <2>2, ReportTypes DEF HandsetTypeOK, statistics
  <2>3. CASE ~UNCHANGED statistics
    <3>1. /\ last_update' = now
          /\ mobile_data_consumed_bytes' =
                mobile_data_consumed_bytes + mobile_last_delta_bytes'["DOWN"]
                                           + mobile_last_delta_bytes'["UP"]
          /\ \E cpu \in CpuEnergies, networking \in Nat :
                energy_consumed_mJ' =
                   [energy_consumed_mJ EXCEPT !["CPU"] = @ + cpu,
                                              !["NETWORKING"] = @ + networking,
                                              !["ALL"] = @ + cpu + networking]
      BY <1>1, <2>3, ChargeOfPoll DEF HandsetTypeOK
    <3>2. last_update' \in Nat
      BY <3>1 DEF TrackersInv, TInv, TypeOK
    <3>3. mobile_data_consumed_bytes' \in Nat
      <4>1. /\ mobile_last_delta_bytes'["DOWN"] \in Nat
            /\ mobile_last_delta_bytes'["UP"] \in Nat
        BY WifiConstants DEF TrackersInv, TInv, TypeOK, SampleNonNegative
      <4> QED
        BY <3>1, <4>1 DEF HandsetTypeOK
    <3>4. energy_consumed_mJ' \in [Stats!EnergyComponent -> Nat]
      <4>1. PICK cpu \in CpuEnergies, networking \in Nat :
               energy_consumed_mJ' =
                  [energy_consumed_mJ EXCEPT !["CPU"] = @ + cpu,
                                             !["NETWORKING"] = @ + networking,
                                             !["ALL"] = @ + cpu + networking]
        BY <3>1
      <4>2. cpu \in Nat
        BY <4>1, PowerAssumption DEF Stats!PowerTypes
      <4> QED
        BY <4>1, <4>2 DEF HandsetTypeOK, Stats!EnergyComponent
    <3> QED
      BY <1>1, <2>1, <3>2, <3>3, <3>4, ReportTypes DEF HandsetTypeOK
  <2> QED
    BY <2>2, <2>3
<1>2. CASE HandsetReset
  <2>1. now \in Nat /\ 0 \in Nat
    BY DEF TrackersInv, TInv, TypeOK
  <2> QED
    BY <1>2, <2>1 DEF HandsetReset, Stats!ResetStatistics, HandsetTypeOK
<1>3. CASE RegisterCallback
  BY <1>3 DEF RegisterCallback, HandsetTypeOK, statistics
<1>4. CASE UNCHANGED <<statistics, reporting>>
  BY <1>4 DEF HandsetTypeOK, statistics, reporting
<1> QED
  BY <1>1, <1>2, <1>3, <1>4 DEF HandsetNext, HandsetTick, MobileTransfer, MobileDevChange,
     WifiDevChange, HandsetHorizon, handsetvars

\* Type correctness: energies and bytes are charged as counts, and the queue lengths of
\* a report are counts, as long as no interface restarts.
THEOREM HandsetTypeCorrect ==
    ASSUME ~IFACE_RESTARTS
    PROVE  HandsetSpec => []HandsetTypeOK
<1>1. HandsetInit => TrackersInv
  BY TrackersInvInit
<1>2. HandsetInit => HandsetTypeOK
  <2> SUFFICES ASSUME HandsetInit PROVE HandsetTypeOK
    OBVIOUS
  <2>1. /\ last_update \in Nat /\ mobile_data_consumed_bytes = 0
        /\ energy_consumed_mJ = [c \in Stats!EnergyComponent |-> 0]
        /\ mobile_activity_callback = FALSE /\ report = NoReport
    BY ConstantTypes DEF HandsetInit, MobileInit, Stats!StatsInit
  <2> QED
    BY <2>1 DEF HandsetTypeOK
<1>3. TrackersInv /\ [HandsetNext]_handsetvars => TrackersInv'
  BY TrackersInvNext
<1>4. TrackersInv /\ TrackersInv' /\ HandsetTypeOK /\ [HandsetNext]_handsetvars
        => HandsetTypeOK'
  BY HandsetTypeNext
<1> QED
  BY <1>1, <1>2, <1>3, <1>4, PTL DEF HandsetSpec
-----------------------------------------------------------------------------
(* Activity is reported.                                                   *)

\* With the sample taken, the queue length is what the sample found.
LEMMA ReportedQueue ==
    ASSUME MInv, UpdateActivity, mobile_dev' = mobile_dev
    PROVE  /\ \A d \in Direction : QueueNow(d)' = Delta[d]
           /\ Delta["DOWN"] + Delta["UP"] > 0
<1>1. \A d \in Direction : /\ mobile_dev.bytes[d] \in Nat
                           /\ mobile_last_bytes[d] \in Int
                           /\ Delta[d] \in Int /\ Delta[d] >= 0
  BY ByteTypes
<1>2. mobile_last_bytes' = mobile_dev.bytes /\ mobile_last_delta_bytes' = Delta
  BY DEF UpdateActivity, Stored
<1>3. ASSUME NEW d \in Direction PROVE QueueNow(d)' = Delta[d]
  <2>1. mobile_last_delta_bytes'[d] = Delta[d]
    BY <1>2
  <2>2. (Delta')[d] = 0
    BY <1>1, <1>2 DEF Delta
  <2>3. QueueNow(d)' = mobile_last_delta_bytes'[d]
           + IF CanRead' /\ mobile_last_bytes'["DOWN"] # -1 THEN (Delta')[d] ELSE 0
    BY DEF QueueNow, get_mobile_queue_len, Delta
  <2> QED
    BY <1>1, <2>1, <2>2, <2>3
<1>4. PICK d \in Direction : Delta[d] > 0
  <2>1. PICK d \in Direction : mobile_dev.bytes[d] > mobile_last_bytes[d]
    BY DEF UpdateActivity, Sampled
  <2> QED
    BY <1>1, <2>1 DEF Delta
<1>5. Delta["DOWN"] + Delta["UP"] > 0
  BY <1>1, <1>4 DEF Direction
<1> QED
  BY <1>3, <1>5

\* As long as the counters can be read, no poll that finds activity on the cellular
\* interface leaves it unreported, nor reports it with empty queues.
THEOREM PromotionsReported ==
    ASSUME FaultFree
    PROVE  HandsetSpec => PromotionsAreReported
<1> DEFINE Reported ==
       UpdateEnergyStats /\ mobile_activity_callback
                         /\ mobile_last_delta_bytes' # NoCount =>
          /\ report' # NoReport
          /\ report'.mobile_queue_len["DOWN"] + report'.mobile_queue_len["UP"] > 0
<1>1. ASSUME MInv, MInv', [HandsetNext]_handsetvars
      PROVE  Reported
  <2> SUFFICES ASSUME UpdateEnergyStats, mobile_activity_callback,
                      mobile_last_delta_bytes' # NoCount
               PROVE  /\ report' # NoReport
                      /\ report'.mobile_queue_len["DOWN"]
                            + report'.mobile_queue_len["UP"] > 0
    OBVIOUS
  <2>1. CanRead /\ update_mobile_state /\ mobile_dev' = mobile_dev
    BY <1>1, AlwaysReadable DEF UpdateEnergyStats, UpdateTrackers, MInv
  <2>2. ~UpdateBaseline
    BY <1>1 DEF UpdateBaseline, MInv, QInv, NoQueueUnsampled
  <2>3. UpdateActivity
    BY <2>1, <2>2 DEF update_mobile_state, UpdateReadFails, UpdateQuiet, QuietDelta
  <2>4. FireCallback
    BY <2>3 DEF UpdateActivity, FireCallback, MobileFires
  <2> DEFINE queue(d) == QueueNow(d)'
             queues == [DOWN |-> queue("DOWN"), UP |-> queue("UP")]
             rate   == Wifi!PacketRate(wifi_packet_rates')
  <2>5. report' = [mobile_state |-> mobile_state', mobile_queue_len |-> queues,
                   wifi_packet_rate |-> rate]
    BY <2>4 DEF UpdateEnergyStats, ReportActivity
  <2>6. queue("DOWN") + queue("UP") > 0
    <3>1. queue("DOWN") = Delta["DOWN"] /\ queue("UP") = Delta["UP"]
          /\ Delta["DOWN"] + Delta["UP"] > 0
      BY <1>1, <2>1, <2>3, ReportedQueue DEF Direction
    <3> HIDE DEF queue
    <3> QED
      BY <3>1
  <2>7. mobile_state' # "none"
    BY <1>1 DEF MInv, TInv, TypeOK, MobileState
  <2> HIDE DEF queue, rate
  <2>8. /\ report'.mobile_state = mobile_state'
        /\ report'.mobile_queue_len["DOWN"] = queue("DOWN")
        /\ report'.mobile_queue_len["UP"] = queue("UP")
    BY <2>5
  <2> QED
    BY <2>6, <2>7, <2>8 DEF NoReport
<1>2. HandsetInit => MInv
  BY MInvInit DEF HandsetInit
<1>3. MInv /\ [HandsetNext]_handsetvars => MInv'
  BY MInvNext, MobileStep
<1>4. MInv /\ MInv' /\ [HandsetNext]_handsetvars => [Reported]_handsetvars
  BY <1>1
<1> QED
  BY <1>2, <1>3, <1>4, PTL DEF HandsetSpec, PromotionsAreReported
=============================================================================
