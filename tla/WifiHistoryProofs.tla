------------------------- MODULE WifiHistoryProofs -------------------------
(***************************************************************************)
(* Theorems about WifiTracker, and about WifiHistory, which is WifiTracker *)
(* with its history, for every sampling interval, poll interval, traffic   *)
(* and threshold that the assumptions admit.                               *)
(***************************************************************************)
EXTENDS WifiHistory, TLAPS

\* No stamp lies in the future, and polls come at most MaxPollGap apart.
Stamps ==
    /\ last_wifi_observation <= last_poll
    /\ last_poll <= now
    /\ now <= last_poll + MaxPollGap

\* The arrays are filled and emptied together: the counts at the first observation,
\* the rates at the second.
KnownTogether ==
    /\ wifi_last_bytes["DOWN"] = -1 <=> wifi_last_bytes = Unsampled
    /\ wifi_last_packets = Unsampled <=> wifi_last_bytes = Unsampled
    /\ wifi_last_bytes = Unsampled =>
          wifi_data_rates = Unsampled /\ wifi_packet_rates = Unsampled

WifiInv == WifiTypeOK /\ Stamps /\ KnownTogether

\* An interface that never restarts counts upwards from the last observation on.
Monotone ==
    /\ wifi_dev.up
    /\ wifi_last_bytes # Unsampled =>
          \A d \in Direction : wifi_last_bytes[d] <= wifi_dev.bytes[d]
    /\ wifi_last_packets # Unsampled =>
          \A d \in Direction : wifi_last_packets[d] <= wifi_dev.packets[d]
    /\ \/ wifi_data_rates = Unsampled /\ wifi_packet_rates = Unsampled
       \/ \A d \in Direction : wifi_data_rates[d] >= 0 /\ wifi_packet_rates[d] >= 0

\* The history of the packets begins with the first observation, and each
\* observation adds to both sides of RatesCoverTraffic.
Telescope ==
    /\ first_packets \in [Direction -> Nat] \cup {Unsampled}
    /\ first_packets = Unsampled <=> wifi_last_packets = Unsampled
    /\ packets_estimated \in [Direction -> Int]
    /\ first_observation \in Nat /\ first_observation <= last_wifi_observation
    /\ first_packets = Unsampled => packets_estimated = NoCount
    /\ first_packets # Unsampled => \A d \in Direction :
          /\ SECOND * wifi_last_packets[d] - SECOND * first_packets[d]
                <= packets_estimated[d]
          /\ packets_estimated[d]
                <= SECOND * wifi_last_packets[d] - SECOND * first_packets[d]
                   + (last_wifi_observation - first_observation)

\* While every poll can read the counters, an observation is never older than an
\* interval and a gap, and a rate tells of traffic in the interval it was taken over.
Prompt ==
    /\ SIMULATION_BUILD => wifi_dev.up
    /\ last_wifi_traffic \in Nat /\ last_wifi_traffic <= now
    /\ last_poll < last_wifi_observation + SECOND
    /\ last_wifi_traffic < last_wifi_observation /\ wifi_last_packets # Unsampled =>
          wifi_last_packets = wifi_dev.packets
    /\ PacketRate(wifi_packet_rates) > 0 =>
          last_wifi_observation < last_wifi_traffic + SECOND + MaxPollGap
-----------------------------------------------------------------------------
\* The constants the proofs compute with.
LEMMA ConstantTypes ==
    /\ SECOND \in Nat /\ SECOND > 0
    /\ StartTime \in Nat
    /\ MinPollGap \in Nat /\ MaxPollGap \in Nat
    /\ WIFI_PACKET_RATE_THRESHOLD \in Nat
    /\ WifiBursts \subseteq [packets : Nat \ {0}, bytes : Nat \ {0}]
    /\ Direction = {"DOWN", "UP"}
    /\ NoCount \in [Direction -> Nat]
    /\ Unsampled \in [Direction -> Int] /\ Unsampled \notin [Direction -> Nat]
    /\ \A d \in Direction : Unsampled[d] = -1 /\ NoCount[d] = 0
  BY SecondAssumption, ClockAssumption, PlatformAssumption, WifiAssumption
     DEF Direction, NoCount, Unsampled

\* Rounding up: the quotient is the least that covers the dividend.
LEMMA CeilDivBounds ==
    ASSUME NEW a \in Int, NEW b \in Nat, b > 0
    PROVE  /\ CeilDiv(a, b) \in Int
           /\ a <= CeilDiv(a, b) * b
           /\ CeilDiv(a, b) * b < a + b
<1> DEFINE q == (-a) \div b
<1>1. q \in Int /\ b * q <= -a /\ -a < b * q + b
  OBVIOUS
<1>2. CeilDiv(a, b) = -q
  BY DEF CeilDiv
<1> HIDE DEF q
<1>3. (-q) * b = -(b * q)
  BY <1>1
<1> QED
  BY <1>1, <1>2, <1>3

LEMMA CeilDivSign ==
    ASSUME NEW a \in Int, NEW b \in Nat, b > 0
    PROVE  /\ a >= 0 => CeilDiv(a, b) >= 0
           /\ a = 0 => CeilDiv(a, b) = 0
<1> DEFINE c == CeilDiv(a, b)
<1>1. c \in Int /\ a <= c * b /\ c * b < a + b
  BY CeilDivBounds
<1> HIDE DEF c
<1>2. a >= 0 => c >= 0
  BY <1>1
<1>3. a = 0 => c = 0
  BY <1>1
<1> QED
  BY <1>2, <1>3 DEF c

\* The rates of an observation, from two pairs of counters.
LEMMA CalcRatesTypes ==
    ASSUME NEW current \in [Direction -> Nat], NEW last \in [Direction -> Nat],
           NEW duration \in Nat, duration > 0
    PROVE  /\ CalcRates(current, last, duration) \in [Direction -> Int]
           /\ \A d \in Direction :
                /\ SECOND * current[d] - SECOND * last[d]
                      <= CalcRates(current, last, duration)[d] * duration
                /\ CalcRates(current, last, duration)[d] * duration
                      < SECOND * current[d] - SECOND * last[d] + duration
                /\ last[d] <= current[d] => CalcRates(current, last, duration)[d] >= 0
                /\ last[d] = current[d] => CalcRates(current, last, duration)[d] = 0
<1> SUFFICES ASSUME NEW d \in Direction
             PROVE  LET c == CeilDiv((current[d] - last[d]) * SECOND, duration)
                    IN  /\ c \in Int
                        /\ SECOND * current[d] - SECOND * last[d] <= c * duration
                        /\ c * duration < SECOND * current[d] - SECOND * last[d] + duration
                        /\ last[d] <= current[d] => c >= 0
                        /\ last[d] = current[d] => c = 0
  BY DEF CalcRates
<1> DEFINE a == (current[d] - last[d]) * SECOND
           c == CeilDiv(a, duration)
<1>1. /\ current[d] \in Nat /\ last[d] \in Nat /\ SECOND \in Nat
  BY ConstantTypes
<1>2. a \in Int /\ a = SECOND * current[d] - SECOND * last[d]
  BY <1>1
<1>3. last[d] <= current[d] => a >= 0
  <2>1. last[d] <= current[d] => current[d] - last[d] \in Nat
    BY <1>1
  <2>2. \A n \in Nat : n * SECOND \in Nat
    BY <1>1
  <2> QED
    BY <2>1, <2>2
<1>4. last[d] = current[d] => a = 0
  BY <1>1
<1>5. c \in Int /\ a <= c * duration /\ c * duration < a + duration
  BY <1>2, CeilDivBounds
<1>6. (a >= 0 => c >= 0) /\ (a = 0 => c = 0)
  BY <1>2, CeilDivSign
<1> HIDE DEF a, c
<1>7. /\ c \in Int
      /\ SECOND * current[d] - SECOND * last[d] <= c * duration
      /\ c * duration < SECOND * current[d] - SECOND * last[d] + duration
      /\ last[d] <= current[d] => c >= 0
      /\ last[d] = current[d] => c = 0
  BY <1>2, <1>3, <1>4, <1>5, <1>6
<1> QED
  BY <1>7 DEF a, c

\* Counters that stand still have no rate.
LEMMA CalcRatesStill ==
    ASSUME NEW current \in [Direction -> Nat], NEW duration \in Nat, duration > 0
    PROVE  /\ CalcRates(current, current, duration)["DOWN"] = 0
           /\ CalcRates(current, current, duration)["UP"] = 0
<1>1. ASSUME NEW d \in Direction
      PROVE  CalcRates(current, current, duration)[d] = 0
  <2>1. current[d] \in Nat /\ (current[d] - current[d]) * SECOND = 0
    BY ConstantTypes
  <2>2. CeilDiv(0, duration) = 0
    BY CeilDivSign
  <2> QED
    BY <2>1, <2>2 DEF CalcRates
<1> QED
  BY <1>1, ConstantTypes

\* What a transfer does to the counters.
LEMMA TransferCounts ==
    ASSUME WifiTypeOK, WifiTransfer
    PROVE  /\ wifi_dev' \in [up : BOOLEAN, bytes : [Direction -> Nat],
                             packets : [Direction -> Nat]]
           /\ wifi_dev'.up = wifi_dev.up
           /\ \A d \in Direction : /\ wifi_dev.bytes[d] <= wifi_dev'.bytes[d]
                                   /\ wifi_dev.packets[d] <= wifi_dev'.packets[d]
<1>1. PICK d \in Direction, burst \in WifiBursts :
        wifi_dev' = [wifi_dev EXCEPT !.packets[d] = @ + burst.packets,
                                     !.bytes[d] = @ + burst.bytes]
  BY DEF WifiTransfer
<1>2. burst.packets \in Nat /\ burst.bytes \in Nat
  BY ConstantTypes
<1>3. /\ wifi_dev \in [up : BOOLEAN, bytes : [Direction -> Nat],
                       packets : [Direction -> Nat]]
  BY DEF WifiTypeOK
<1>4. /\ wifi_dev' = [up |-> wifi_dev.up,
                      bytes |-> [wifi_dev.bytes EXCEPT ![d] = @ + burst.bytes],
                      packets |-> [wifi_dev.packets EXCEPT ![d] = @ + burst.packets]]
  BY <1>1, <1>3
<1>5. /\ [wifi_dev.bytes EXCEPT ![d] = @ + burst.bytes] \in [Direction -> Nat]
      /\ [wifi_dev.packets EXCEPT ![d] = @ + burst.packets] \in [Direction -> Nat]
  BY <1>2, <1>3
<1> QED
  BY <1>2, <1>3, <1>4, <1>5

\* What a poll does: nothing to the counts, or an observation, the first or a later.
LEMMA PollCases ==
    ASSUME WifiInv, WifiPoll
    PROVE  /\ last_poll' = now /\ UNCHANGED <<now, wifi_dev>>
           /\ \/ /\ ~CanReadWifi \/ now < last_wifi_observation + SECOND
                 /\ UNCHANGED <<rates, counts>>
              \/ /\ now >= last_wifi_observation + SECOND
                 /\ last_wifi_observation' = now
                 /\ wifi_last_bytes' = wifi_dev.bytes
                 /\ wifi_last_packets' = wifi_dev.packets
                 /\ \/ /\ wifi_last_bytes = Unsampled /\ wifi_last_packets = Unsampled
                       /\ UNCHANGED rates
                    \/ /\ wifi_last_bytes \in [Direction -> Nat]
                       /\ wifi_last_packets \in [Direction -> Nat]
                       /\ wifi_data_rates' = CalcRates(wifi_dev.bytes, wifi_last_bytes,
                                                       now - last_wifi_observation)
                       /\ wifi_packet_rates' = CalcRates(wifi_dev.packets,
                                          wifi_last_packets, now - last_wifi_observation)
<1> USE ConstantTypes
<1>1. now \in Nat /\ last_wifi_observation \in Nat
  BY DEF WifiInv, WifiTypeOK
<1>2. \/ wifi_last_bytes = Unsampled /\ wifi_last_packets = Unsampled
         /\ wifi_last_bytes["DOWN"] = -1
      \/ wifi_last_bytes \in [Direction -> Nat] /\ wifi_last_packets \in [Direction -> Nat]
         /\ wifi_last_bytes["DOWN"] # -1
  BY DEF WifiInv, WifiTypeOK, KnownTogether
<1>3. update_wifi_estimated_rates /\ last_poll' = now /\ UNCHANGED <<now, wifi_dev>>
  BY DEF WifiPoll
<1>4. HasElapsedSecond(SinceObservation) <=> now >= last_wifi_observation + SECOND
  BY <1>1 DEF HasElapsedSecond, SinceObservation
<1>5. CASE WifiReadFails \/ WifiTooSoon
  BY <1>1, <1>3, <1>4, <1>5 DEF WifiReadFails, WifiTooSoon
<1>6. CASE WifiFirstObservation
  BY <1>2, <1>3, <1>4, <1>6 DEF WifiFirstObservation, StoreCounts
<1>7. CASE WifiObservation
  BY <1>2, <1>3, <1>4, <1>7 DEF WifiObservation, StoreCounts, SinceObservation
<1> QED
  BY <1>3, <1>5, <1>6, <1>7 DEF update_wifi_estimated_rates
-----------------------------------------------------------------------------
(* WifiTracker, whatever the interface does.                               *)

LEMMA WifiInvInit == WifiInit => WifiInv
<1> SUFFICES ASSUME WifiInit PROVE WifiInv
  OBVIOUS
<1>1. wifi_dev \in [up : BOOLEAN, bytes : [Direction -> Nat], packets : [Direction -> Nat]]
  <2>1. PICK u \in BOOLEAN : wifi_dev = [up |-> u, bytes |-> NoCount, packets |-> NoCount]
    BY DEF WifiInit
  <2> QED
    BY <2>1, ConstantTypes
<1>2. WifiTypeOK
  BY <1>1, ConstantTypes DEF WifiInit, WifiTypeOK
<1> QED
  BY <1>2, ConstantTypes DEF WifiInit, WifiInv, Stamps, KnownTogether

\* An observation fills the arrays; a failed poll and a poll that comes too soon
\* leave them alone.
LEMMA WifiInvPoll == WifiInv /\ WifiPoll => WifiInv'
<1> SUFFICES ASSUME WifiInv, WifiPoll PROVE WifiInv'
  OBVIOUS
<1> USE ConstantTypes
<1>1. /\ now \in Nat /\ last_wifi_observation \in Nat /\ last_poll \in Nat
      /\ last_wifi_observation <= now
      /\ wifi_dev.bytes \in [Direction -> Nat] /\ wifi_dev.packets \in [Direction -> Nat]
  BY DEF WifiInv, WifiTypeOK, Stamps
<1>2. last_poll' = now /\ UNCHANGED <<now, wifi_dev>>
  BY PollCases
<1>3. CASE UNCHANGED <<rates, counts>>
  BY <1>1, <1>2, <1>3 DEF WifiInv, WifiTypeOK, Stamps, KnownTogether, rates, counts
<1>4. ASSUME now >= last_wifi_observation + SECOND,
             last_wifi_observation' = now,
             wifi_last_bytes' = wifi_dev.bytes, wifi_last_packets' = wifi_dev.packets,
             \/ UNCHANGED rates
             \/ /\ wifi_last_bytes \in [Direction -> Nat]
                /\ wifi_last_packets \in [Direction -> Nat]
                /\ wifi_data_rates' = CalcRates(wifi_dev.bytes, wifi_last_bytes,
                                                now - last_wifi_observation)
                /\ wifi_packet_rates' = CalcRates(wifi_dev.packets,
                                   wifi_last_packets, now - last_wifi_observation)
      PROVE  WifiInv'
  <2>1. now - last_wifi_observation \in Nat /\ now - last_wifi_observation > 0
    BY <1>1, <1>4
  <2>2. {wifi_data_rates', wifi_packet_rates'} \subseteq [Direction -> Int]
    <3>1. CASE UNCHANGED rates
      BY <3>1 DEF WifiInv, WifiTypeOK, rates
    <3>2. ASSUME wifi_last_bytes \in [Direction -> Nat],
                 wifi_last_packets \in [Direction -> Nat]
          PROVE  /\ CalcRates(wifi_dev.bytes, wifi_last_bytes,
                              now - last_wifi_observation) \in [Direction -> Int]
                 /\ CalcRates(wifi_dev.packets, wifi_last_packets,
                              now - last_wifi_observation) \in [Direction -> Int]
      BY <1>1, <2>1, <3>2, CalcRatesTypes
    <3> QED
      BY <1>4, <3>1, <3>2
  <2>3. WifiTypeOK'
    BY <1>1, <1>2, <1>4, <2>2 DEF WifiInv, WifiTypeOK
  <2>4. wifi_last_bytes'["DOWN"] # -1
    BY <1>1, <1>4
  <2> QED
    BY <1>1, <1>2, <1>4, <2>3, <2>4 DEF WifiInv, Stamps, KnownTogether
<1> QED
  BY <1>3, <1>4, PollCases

\* No step of the tracker, the clock or the interface leaves the invariant.
LEMMA WifiInvNext == WifiInv /\ [WifiNext]_wifivars => WifiInv'
<1> SUFFICES ASSUME WifiInv, [WifiNext]_wifivars PROVE WifiInv'
  OBVIOUS
<1> USE ConstantTypes
<1>1. CASE WifiTick
  BY <1>1 DEF WifiTick, WifiInv, WifiTypeOK, Stamps, KnownTogether, rates, counts
<1>2. CASE WifiTransfer \/ WifiDown \/ WifiUp
  <2>1. UNCHANGED <<now, rates, counts, last_poll>>
    BY <1>2 DEF WifiTransfer, WifiDown, WifiUp
  <2>2. wifi_dev' \in [up : BOOLEAN, bytes : [Direction -> Nat],
                       packets : [Direction -> Nat]]
    <3>1. WifiTypeOK
      BY DEF WifiInv
    <3>2. CASE WifiTransfer
      BY <3>1, <3>2, TransferCounts
    <3>3. CASE WifiDown
      BY <3>1, <3>3 DEF WifiDown, WifiTypeOK
    <3>4. CASE WifiUp
      BY <3>4 DEF WifiUp
    <3> QED
      BY <1>2, <3>2, <3>3, <3>4
  <2> QED
    BY <2>1, <2>2 DEF WifiInv, WifiTypeOK, Stamps, KnownTogether, rates, counts
<1>3. CASE WifiReset
  <2>1. wifi_dev' \in [up : BOOLEAN, bytes : [Direction -> Nat],
                       packets : [Direction -> Nat]]
    BY <1>3 DEF WifiReset, WifiInv, WifiTypeOK
  <2> QED
    BY <1>3, <2>1 DEF WifiReset, ResetWifiState, WifiInv, WifiTypeOK, Stamps, KnownTogether
<1>4. CASE WifiHorizon \/ UNCHANGED wifivars
  BY <1>4 DEF WifiHorizon, wifivars, WifiInv, WifiTypeOK, Stamps, KnownTogether, rates,
     counts
<1> QED
  BY <1>1, <1>2, <1>3, <1>4, WifiInvPoll DEF WifiNext

LEMMA WifiInvHolds == WifiSpec => []WifiInv
  BY WifiInvInit, WifiInvNext, PTL DEF WifiSpec

\* The tracker's state keeps its types, through every division by the time since
\* the last observation: it is never zero or negative.
THEOREM WifiTypeCorrect == WifiSpec => []WifiTypeOK
<1>1. WifiInv => WifiTypeOK
  BY DEF WifiInv
<1> QED
  BY <1>1, WifiInvHolds, PTL

\* The assertion before the first observation never fails, through failed polls,
\* restarts of the interface and resets.
THEOREM FirstObservationAssertHolds == WifiSpec => []FirstObservationAssert
<1>1. WifiInv => FirstObservationAssert
  BY DEF WifiInv, KnownTogether, FirstObservationAssert
<1> QED
  BY <1>1, WifiInvHolds, PTL
-----------------------------------------------------------------------------
(* WifiHistory.                                                            *)

\* The history never changes what the tracker does.
LEMMA HistoryRunsTracker ==
    /\ HistoryInit => WifiInit
    /\ [HistoryNext]_<<wifivars, history>> => [WifiNext]_wifivars
  BY DEF HistoryInit, HistoryNext, HistoryPoll, HistoryReset, WifiNext

THEOREM HistoryImplementsTracker == HistorySpec => WifiSpec
  BY HistoryRunsTracker, PTL DEF HistorySpec, WifiSpec

\* What an observation adds to the history.
LEMMA TelescopeInit == HistoryInit => Telescope
  BY ConstantTypes DEF HistoryInit, WifiInit, Telescope

LEMMA TelescopePoll == WifiInv /\ Telescope /\ HistoryPoll => Telescope'
<1> SUFFICES ASSUME WifiInv, Telescope, HistoryPoll PROVE Telescope'
  OBVIOUS
<1> USE ConstantTypes
<1>1. /\ now \in Nat /\ last_wifi_observation \in Nat /\ last_wifi_observation <= now
      /\ wifi_dev.bytes \in [Direction -> Nat] /\ wifi_dev.packets \in [Direction -> Nat]
      /\ wifi_dev.packets # Unsampled
  BY DEF WifiInv, WifiTypeOK, Stamps
<1>2. WifiPoll
  BY DEF HistoryPoll
<1>3. CASE UNCHANGED <<rates, counts>>
  BY <1>3 DEF HistoryPoll, Telescope, counts
<1>4. ASSUME now >= last_wifi_observation + SECOND, last_wifi_observation' = now,
             wifi_last_packets' = wifi_dev.packets, wifi_last_packets = Unsampled
      PROVE  Telescope'
  <2>1. first_packets = Unsampled /\ packets_estimated = NoCount
    BY <1>4 DEF Telescope
  <2>2. first_packets' = wifi_dev.packets /\ first_observation' = now
        /\ packets_estimated' = packets_estimated
    BY <1>1, <1>4, <2>1 DEF HistoryPoll
  <2>3. \A d \in Direction : SECOND * wifi_dev.packets[d] - SECOND * wifi_dev.packets[d] = 0
    BY <1>1
  <2> QED
    BY <1>1, <1>4, <2>1, <2>2, <2>3 DEF Telescope
<1>5. ASSUME now >= last_wifi_observation + SECOND, last_wifi_observation' = now,
             wifi_last_packets' = wifi_dev.packets,
             wifi_last_packets \in [Direction -> Nat],
             wifi_packet_rates' = CalcRates(wifi_dev.packets, wifi_last_packets,
                                            now - last_wifi_observation)
      PROVE  Telescope'
  <2>1. first_packets \in [Direction -> Nat] /\ first_packets # Unsampled
        /\ packets_estimated \in [Direction -> Int]
        /\ first_observation \in Nat /\ first_observation <= last_wifi_observation
    BY <1>5 DEF Telescope
  <2> DEFINE duration == now - last_wifi_observation
             c == [d \in Direction |-> wifi_packet_rates'[d] * duration]
  <2>2. /\ UNCHANGED <<first_packets, first_observation>>
        /\ packets_estimated' = [d \in Direction |-> packets_estimated[d] + c[d]]
    BY <1>1, <1>5, <2>1 DEF HistoryPoll, SinceObservation
  <2>3. duration \in Nat /\ duration > 0
    BY <1>1, <1>5
  <2>4. /\ wifi_packet_rates' \in [Direction -> Int]
        /\ \A d \in Direction :
             /\ SECOND * wifi_dev.packets[d] - SECOND * wifi_last_packets[d] <= c[d]
             /\ c[d] < SECOND * wifi_dev.packets[d] - SECOND * wifi_last_packets[d]
                       + duration
    BY <1>1, <1>5, <2>3, CalcRatesTypes
  <2>5. c \in [Direction -> Int]
    BY <2>3, <2>4
  <2> HIDE DEF c
  <2>6. packets_estimated' \in [Direction -> Int]
    BY <2>1, <2>2, <2>5
  <2>7. ASSUME NEW d \in Direction
        PROVE  /\ SECOND * wifi_dev.packets[d] - SECOND * first_packets[d]
                     <= packets_estimated'[d]
               /\ packets_estimated'[d]
                     <= SECOND * wifi_dev.packets[d] - SECOND * first_packets[d]
                        + (now - first_observation)
    <3> DEFINE x == SECOND * wifi_dev.packets[d]
               y == SECOND * wifi_last_packets[d]
               z == SECOND * first_packets[d]
    <3>1. x \in Int /\ y \in Int /\ z \in Int /\ c[d] \in Int /\ packets_estimated[d] \in Int
      BY <1>1, <1>5, <2>1, <2>5
    <3>2. packets_estimated'[d] = packets_estimated[d] + c[d]
      BY <2>2
    <3>3. x - y <= c[d] /\ c[d] < x - y + duration
      BY <2>4
    <3>4. /\ y - z <= packets_estimated[d]
          /\ packets_estimated[d] <= y - z + (last_wifi_observation - first_observation)
      BY <2>1 DEF Telescope
    <3> HIDE DEF x, y, z
    <3>5. x - z <= packets_estimated'[d]
          /\ packets_estimated'[d] <= x - z + (now - first_observation)
      BY <1>1, <2>1, <3>1, <3>2, <3>3, <3>4
    <3> QED
      BY <3>5 DEF x, z
  <2> QED
    BY <1>1, <1>5, <2>1, <2>2, <2>6, <2>7 DEF Telescope
<1> QED
  BY <1>2, <1>3, <1>4, <1>5, PollCases

LEMMA TelescopeNext ==
    WifiInv /\ Telescope /\ [HistoryNext]_<<wifivars, history>> => Telescope'
<1> SUFFICES ASSUME WifiInv, Telescope, [HistoryNext]_<<wifivars, history>>
             PROVE  Telescope'
  OBVIOUS
<1>1. CASE HistoryReset
  BY <1>1, ConstantTypes DEF HistoryReset, WifiReset, ResetWifiState, Telescope, WifiInv,
     WifiTypeOK
<1>2. CASE \/ (WifiTick \/ WifiDown \/ WifiUp \/ WifiHorizon) /\ UNCHANGED history
           \/ WifiTransfer /\ UNCHANGED <<first_packets, first_observation,
                                          packets_estimated>>
           \/ UNCHANGED <<wifivars, history>>
  <2>1. UNCHANGED <<wifi_last_packets, last_wifi_observation, first_packets,
                   first_observation, packets_estimated>>
    BY <1>2 DEF WifiTick, WifiDown, WifiUp, WifiHorizon, WifiTransfer, wifivars, history,
       counts
  <2> QED
    BY <2>1 DEF Telescope
<1> QED
  BY <1>1, <1>2, TelescopePoll DEF HistoryNext

\* Sampling neither loses nor invents traffic: summed over the observations since the
\* first, rate times time covers what the interface counted, and exceeds it by less
\* than a packet for each second observed, however late the polls, however many of
\* them fail, and even if the interface restarts in between.
THEOREM RatesAlwaysCover == HistorySpec => []RatesCoverTraffic
<1>1. WifiInv /\ Telescope => RatesCoverTraffic
  <2> SUFFICES ASSUME WifiInv, Telescope, first_packets # Unsampled, NEW d \in Direction
               PROVE  /\ SECOND * (wifi_last_packets[d] - first_packets[d])
                            <= packets_estimated[d]
                      /\ packets_estimated[d]
                            <= SECOND * (wifi_last_packets[d] - first_packets[d])
                               + (last_wifi_observation - first_observation)
    BY DEF RatesCoverTraffic
  <2>1. wifi_last_packets[d] \in Nat /\ first_packets[d] \in Nat
    BY DEF WifiInv, WifiTypeOK, Telescope
  <2>2. SECOND * (wifi_last_packets[d] - first_packets[d])
          = SECOND * wifi_last_packets[d] - SECOND * first_packets[d]
    BY <2>1, ConstantTypes
  <2> QED
    BY <2>2 DEF Telescope
<1> QED
  BY <1>1, HistoryRunsTracker, WifiInvInit, WifiInvNext, TelescopeInit, TelescopeNext, PTL
     DEF HistorySpec
-----------------------------------------------------------------------------
(* An interface that never restarts.                                       *)

LEMMA MonotoneInit ==
    ASSUME ~IFACE_RESTARTS
    PROVE  WifiInit => Monotone
  BY ConstantTypes DEF WifiInit, Monotone

LEMMA MonotoneNext ==
    ASSUME ~IFACE_RESTARTS, WifiInv, Monotone, [WifiNext]_wifivars
    PROVE  Monotone'
<1> USE ConstantTypes
<1>1. CASE WifiTick \/ WifiDown \/ WifiUp \/ WifiHorizon \/ UNCHANGED wifivars
  <2>1. UNCHANGED <<wifi_dev, rates, counts>>
    BY <1>1 DEF WifiTick, WifiDown, WifiUp, WifiHorizon, wifivars, Monotone
  <2> QED
    BY <2>1 DEF Monotone, rates, counts
<1>2. CASE WifiTransfer
  <2>1. UNCHANGED <<rates, counts>>
    BY <1>2 DEF WifiTransfer
  <2>2. /\ wifi_dev \in [up : BOOLEAN, bytes : [Direction -> Nat],
                         packets : [Direction -> Nat]]
        /\ wifi_dev' \in [up : BOOLEAN, bytes : [Direction -> Nat],
                          packets : [Direction -> Nat]]
        /\ wifi_dev'.up = wifi_dev.up
        /\ \A d \in Direction : /\ wifi_dev.bytes[d] <= wifi_dev'.bytes[d]
                                /\ wifi_dev.packets[d] <= wifi_dev'.packets[d]
    BY <1>2, TransferCounts DEF WifiInv, WifiTypeOK
  <2>3. wifi_last_bytes \in [Direction -> Nat] \cup {Unsampled}
        /\ wifi_last_packets \in [Direction -> Nat] \cup {Unsampled}
    BY DEF WifiInv, WifiTypeOK
  <2> QED
    BY <2>1, <2>2, <2>3 DEF Monotone, rates, counts
<1>3. CASE WifiReset
  <2>1. wifi_dev'.up = wifi_dev.up
    BY <1>3 DEF WifiReset, WifiInv, WifiTypeOK
  <2> QED
    BY <1>3, <2>1 DEF WifiReset, ResetWifiState, Monotone
<1>4. CASE WifiPoll
  <2>1. UNCHANGED wifi_dev
    BY <1>4, PollCases
  <2>2. /\ now \in Nat /\ last_wifi_observation \in Nat
        /\ wifi_dev.bytes \in [Direction -> Nat] /\ wifi_dev.packets \in [Direction -> Nat]
        /\ wifi_dev.bytes # Unsampled /\ wifi_dev.packets # Unsampled
    BY DEF WifiInv, WifiTypeOK
  <2>3. CASE UNCHANGED <<rates, counts>>
    BY <2>1, <2>3 DEF Monotone, rates, counts
  <2>4. ASSUME wifi_last_bytes' = wifi_dev.bytes, wifi_last_packets' = wifi_dev.packets,
               UNCHANGED rates
        PROVE  Monotone'
    BY <2>1, <2>2, <2>4 DEF Monotone, rates
  <2>5. ASSUME now >= last_wifi_observation + SECOND,
               wifi_last_bytes' = wifi_dev.bytes, wifi_last_packets' = wifi_dev.packets,
               wifi_last_bytes \in [Direction -> Nat],
               wifi_last_packets \in [Direction -> Nat],
               wifi_data_rates' = CalcRates(wifi_dev.bytes, wifi_last_bytes,
                                            now - last_wifi_observation),
               wifi_packet_rates' = CalcRates(wifi_dev.packets, wifi_last_packets,
                                              now - last_wifi_observation)
        PROVE  Monotone'
    <3>1. now - last_wifi_observation \in Nat /\ now - last_wifi_observation > 0
      BY <2>2, <2>5
    <3>2. \A d \in Direction : wifi_last_bytes[d] <= wifi_dev.bytes[d]
                               /\ wifi_last_packets[d] <= wifi_dev.packets[d]
      BY <2>5 DEF Monotone
    <3>3. \A d \in Direction : wifi_data_rates'[d] >= 0
      BY <2>2, <2>5, <3>1, <3>2, CalcRatesTypes
    <3>4. \A d \in Direction : wifi_packet_rates'[d] >= 0
      BY <2>2, <2>5, <3>1, <3>2, CalcRatesTypes
    <3> QED
      BY <2>1, <2>2, <2>5, <3>3, <3>4 DEF Monotone
  <2> QED
    BY <1>4, <2>3, <2>4, <2>5, PollCases
<1> QED
  BY <1>1, <1>2, <1>3, <1>4 DEF WifiNext

\* Once there are rates neither the packet rate nor the uplink rate is negative, as
\* long as the interface does not restart: its counters then never fall below what
\* the last observation stored, through failed polls and resets.
THEOREM RatesNeverNegative ==
    ASSUME ~IFACE_RESTARTS
    PROVE  WifiSpec => []RatesNonNegative
<1>1. WifiInv /\ Monotone => RatesNonNegative
  BY ConstantTypes DEF WifiInv, WifiTypeOK, Monotone, RatesNonNegative, PacketRate
<1>2. WifiInit => WifiInv /\ Monotone
  BY WifiInvInit, MonotoneInit
<1>3. (WifiInv /\ Monotone) /\ [WifiNext]_wifivars => (WifiInv /\ Monotone)'
  BY WifiInvNext, MonotoneNext
<1> QED
  BY <1>1, <1>2, <1>3, PTL DEF WifiSpec
-----------------------------------------------------------------------------
(* Polls that can always read the counters.                                *)

LEMMA PromptInit == HistoryInit => Prompt
<1> SUFFICES ASSUME HistoryInit PROVE Prompt
  OBVIOUS
<1>1. SIMULATION_BUILD => wifi_dev.up
  BY PlatformAssumption DEF HistoryInit, WifiInit
<1>2. PacketRate(wifi_packet_rates) = -2
  BY ConstantTypes DEF HistoryInit, WifiInit, PacketRate
<1> QED
  BY <1>1, <1>2, ConstantTypes DEF HistoryInit, WifiInit, Prompt

LEMMA PromptPoll == WifiInv /\ Prompt /\ CanReadWifi /\ HistoryPoll => Prompt'
<1> SUFFICES ASSUME WifiInv, Prompt, CanReadWifi, HistoryPoll PROVE Prompt'
  OBVIOUS
<1> USE ConstantTypes
<1>1. /\ now \in Nat /\ last_wifi_observation \in Nat /\ last_poll \in Nat
      /\ last_wifi_observation <= now /\ now <= last_poll + MaxPollGap
      /\ wifi_dev.bytes \in [Direction -> Nat] /\ wifi_dev.packets \in [Direction -> Nat]
      /\ wifi_packet_rates \in [Direction -> Int]
  BY DEF WifiInv, WifiTypeOK, Stamps
<1>2. last_poll' = now /\ UNCHANGED <<now, wifi_dev, last_wifi_traffic>>
  BY PollCases DEF HistoryPoll
<1>3. CASE now < last_wifi_observation + SECOND /\ UNCHANGED <<rates, counts>>
  BY <1>1, <1>2, <1>3 DEF Prompt, rates, counts
<1>4. ASSUME last_wifi_observation' = now, wifi_last_packets' = wifi_dev.packets,
             wifi_last_packets = Unsampled, UNCHANGED rates
      PROVE  Prompt'
  <2>1. wifi_packet_rates' = Unsampled
    BY <1>4 DEF WifiInv, KnownTogether, rates
  <2>2. PacketRate(wifi_packet_rates)' = -2
    BY <2>1 DEF PacketRate
  <2> QED
    BY <1>1, <1>2, <1>4, <2>2 DEF Prompt
<1>5. ASSUME now >= last_wifi_observation + SECOND, last_wifi_observation' = now,
             wifi_last_packets' = wifi_dev.packets,
             wifi_last_packets \in [Direction -> Nat],
             wifi_packet_rates' = CalcRates(wifi_dev.packets, wifi_last_packets,
                                            now - last_wifi_observation)
      PROVE  Prompt'
  <2>1. now - last_wifi_observation \in Nat /\ now - last_wifi_observation > 0
    BY <1>1, <1>5
  <2>2. wifi_last_packets = wifi_dev.packets => PacketRate(wifi_packet_rates)' = 0
    <3>1. wifi_last_packets = wifi_dev.packets =>
            wifi_packet_rates'["DOWN"] = 0 /\ wifi_packet_rates'["UP"] = 0
      BY <1>1, <1>5, <2>1, CalcRatesStill
    <3> QED
      BY <3>1 DEF PacketRate
  <2>3. wifi_last_packets # wifi_dev.packets => last_wifi_observation <= last_wifi_traffic
    BY <1>1, <1>5 DEF Prompt
  <2>4. now < last_wifi_observation + SECOND + MaxPollGap
    BY <1>1 DEF Prompt
  <2>5. PacketRate(wifi_packet_rates)' > 0 => now < last_wifi_traffic + SECOND + MaxPollGap
    BY <1>1, <2>2, <2>3, <2>4 DEF Prompt
  <2> QED
    BY <1>1, <1>2, <1>5, <2>5 DEF Prompt
<1> QED
  BY <1>1, <1>3, <1>4, <1>5, PollCases DEF HistoryPoll

LEMMA PromptNext ==
    WifiInv /\ Prompt /\ CanReadWifi /\ [HistoryNext]_<<wifivars, history>> => Prompt'
<1> SUFFICES ASSUME WifiInv, Prompt, CanReadWifi, [HistoryNext]_<<wifivars, history>>
             PROVE  Prompt'
  OBVIOUS
<1> USE ConstantTypes
<1>0. wifi_dev.up /\ now \in Nat
  BY DEF CanReadWifi, Readable, Prompt, WifiInv, WifiTypeOK
<1>1. CASE WifiTick /\ UNCHANGED history
  BY <1>0, <1>1 DEF WifiTick, Prompt, history, rates, counts, PacketRate
<1>2. CASE (WifiHorizon /\ UNCHANGED history) \/ UNCHANGED <<wifivars, history>>
  BY <1>2 DEF WifiHorizon, Prompt, wifivars, history, rates, counts, PacketRate
<1>3. CASE WifiDown /\ UNCHANGED history
  <2>1. /\ wifi_dev'.packets = wifi_dev.packets /\ wifi_dev.up /\ IFACE_RESTARTS
        /\ UNCHANGED <<now, rates, counts, last_poll, history>>
    BY <1>3 DEF WifiDown, WifiInv, WifiTypeOK
  <2>2. ~SIMULATION_BUILD
    BY <2>1, PlatformAssumption
  <2> QED
    BY <2>1, <2>2 DEF Prompt, history, rates, counts, PacketRate
<1>4. CASE WifiUp /\ UNCHANGED history
  BY <1>0, <1>4 DEF WifiUp
<1>5. CASE WifiTransfer /\ last_wifi_traffic' = now
  <2>1. wifi_dev'.up /\ UNCHANGED <<now, rates, counts, last_poll>>
    BY <1>0, <1>5, TransferCounts DEF WifiTransfer, WifiInv
  <2>2. last_wifi_observation <= now /\ last_wifi_observation \in Nat
        /\ last_wifi_traffic \in Nat /\ last_wifi_traffic <= now
    BY DEF WifiInv, WifiTypeOK, Stamps, Prompt
  <2> QED
    BY <1>0, <1>5, <2>1, <2>2 DEF Prompt, rates, counts, PacketRate
<1>6. CASE HistoryReset
  <2>1. wifi_dev'.up = wifi_dev.up
    BY <1>6 DEF HistoryReset, WifiReset, WifiInv, WifiTypeOK
  <2>2. /\ last_wifi_observation' = now /\ last_poll' = now /\ now' = now
        /\ wifi_last_packets' = Unsampled /\ wifi_packet_rates' = Unsampled
        /\ last_wifi_traffic' = last_wifi_traffic
    BY <1>6 DEF HistoryReset, WifiReset, ResetWifiState
  <2>3. PacketRate(wifi_packet_rates)' = -2
    BY <2>2 DEF PacketRate
  <2> QED
    BY <1>0, <2>1, <2>2, <2>3 DEF Prompt
<1> QED
  BY <1>1, <1>2, <1>3, <1>4, <1>5, <1>6, PromptPoll DEF HistoryNext

\* A wifi radio that has been silent for two sampling intervals, each as late as a
\* poll may make it, is known to be in its low-power state: as long as the counters
\* can be read, no rate outlives the traffic it was taken from.
THEOREM SilentWifiIsKnownLow ==
    HistorySpec /\ []CanReadWifi => []SilentWifiIsLow
<1>1. WifiInv /\ Prompt => SilentWifiIsLow
  <2> SUFFICES ASSUME WifiInv, Prompt,
                      PacketRate(wifi_packet_rates) > WIFI_PACKET_RATE_THRESHOLD
               PROVE  now - last_wifi_traffic <= 2 * (SECOND + MaxPollGap)
    <3>1. WifiInv /\ Prompt => /\ now \in Nat /\ last_wifi_traffic \in Nat
                               /\ PacketRate(wifi_packet_rates) \in Int
      BY ConstantTypes DEF WifiInv, WifiTypeOK, Prompt, PacketRate
    <3> QED
      BY <3>1, ConstantTypes DEF SilentWifiIsLow
  <2>1. /\ now \in Nat /\ last_wifi_observation \in Nat /\ last_poll \in Nat
        /\ last_wifi_traffic \in Nat /\ PacketRate(wifi_packet_rates) \in Int
    BY ConstantTypes DEF WifiInv, WifiTypeOK, Prompt, PacketRate
  <2>2. now <= last_poll + MaxPollGap /\ last_poll < last_wifi_observation + SECOND
    BY DEF WifiInv, Stamps, Prompt
  <2>3. last_wifi_observation < last_wifi_traffic + SECOND + MaxPollGap
    BY <2>1, ConstantTypes DEF Prompt
  <2> QED
    BY <2>1, <2>2, <2>3, ConstantTypes
<1>2. HistoryInit => WifiInv /\ Prompt
  BY HistoryRunsTracker, WifiInvInit, PromptInit
<1>3. (WifiInv /\ Prompt) /\ CanReadWifi /\ [HistoryNext]_<<wifivars, history>>
        => (WifiInv /\ Prompt)'
  BY HistoryRunsTracker, WifiInvNext, PromptNext
<1> QED
  BY <1>1, <1>2, <1>3, PTL DEF HistorySpec
=============================================================================
