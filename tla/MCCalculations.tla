--------------------------- MODULE MCCalculations ---------------------------
(***************************************************************************)
(* The calculations of the library, each over inputs around its            *)
(* boundaries: the cellular estimate as MobileEstimate specifies it, and   *)
(* the others input by input.                                              *)
(***************************************************************************)
EXTENDS MobileEstimate, WifiEstimate, CpuUtilisation, TimeOps

VARIABLE input      \* of one of the other calculations

calcvars == <<estimatevars, input>>

\* Queue lengths around the thresholds of the Nexus One less the headers, and the
\* negative ones that an interface which restarted leaves behind.
MCQueues == {-150, -1, 66, 67, 98, 99}

\* Entries of the Nexus One's table, in hundredths of a mW.
MCCoeffs == [f \in {245, 384, 845, 998} |->
                CASE f = 245 -> 113 [] f = 384 -> 159
                  [] f = 845 -> 465 [] f = 998 -> 548]

\* Wifi: transfers around one packet and the threshold of packets; a packet rate is
\* -2 until the radio was observed twice.
WifiInputs ==
    [kind : {"wifi"},
     computer : [packet_rate : {-2, 0, 1, 14, 15, 16}, channel_rate_component : {0, 6}],
     transfer : [datalen : {0, 1, 1448, 1449, 23168, 23169},
                 bandwidth : {1, 724, 1448}, rtt : {0, 1, 2}]]

\* CPU: two readings of /proc/stat whose counters have not run backwards, the second
\* of which may have failed; frequencies in, between, below and above the
\* entries.
StatReadings(counts) == [StatField -> counts]
CpuInputs ==
    LET lasts == {[f \in StatField |-> n] : n \in {0, 5}}
        freqs == {-1, 100, 245, 300, 384, 800, 998, 1100}
    IN  {[kind |-> "cpu", last |-> last, freq |-> freq,
          stat |-> [f \in StatField |-> last[f] + delta[f]]] :
            last \in lasts, delta \in StatReadings({0, 3}), freq \in freqs}
        \cup [kind : {"cpu"}, last : lasts, freq : freqs, stat : {<<>>}]

TimeInputs ==
    [kind : {"time"}, begin : TimevalsUpTo(2), end : TimevalsUpTo(2)]

NoInput == [kind |-> "none"]

CalcInit ==
    \/ EstimateInit /\ input = NoInput
    \/ /\ computer = [old_state |-> "IDLE"]
       /\ answer = NotAsked
       /\ input \in WifiInputs \/ input \in CpuInputs \/ input \in TimeInputs

AskCellular == input = NoInput /\ EstimateNext /\ UNCHANGED input

\* Nothing follows the other calculations.
Calculated == input # NoInput /\ UNCHANGED calcvars

CalcNext == AskCellular \/ Calculated

CalcSpec == CalcInit /\ [][CalcNext]_calcvars
-----------------------------------------------------------------------------
(* Properties.                                                             *)

\* The wifi estimate is what the statistics would charge for the transfer: for each
\* of the fewest whole seconds that cover it, the power of the state that its
\* packets (as few as can carry it) and those already going call for.
WifiEstimateCovers ==
    input.kind = "wifi" =>
        LET c == input.computer
            t == input.transfer
            Covers(n) == n * SECOND * t.bandwidth >= t.datalen + t.rtt * t.bandwidth
            Carries(p) == p * wifi_mtu >= t.datalen
            High(p) == p + c.packet_rate > WIFI_PACKET_RATE_THRESHOLD
        IN  \E n \in 0..t.datalen + t.rtt :
               /\ Covers(n) /\ (n > 0 => ~Covers(n - 1))
               /\ \E p \in 0..t.datalen :
                     /\ Carries(p) /\ (p > 0 => ~Carries(p - 1))
                     /\ estimate_wifi_energy_cost(c, t) =
                           n * IF High(p)
                               THEN WIFI_HIGH_POWER_BASE + c.channel_rate_component
                               ELSE WIFI_LOW_POWER

\* "return a value in [0, 100] describing the total CPU utilization", and with it no
\* second of the CPU is charged at more than the estimate for a pegged CPU, whatever
\* the frequency, unless it lies above the table (where an assertion fails).
CpuChargeBelowPegged ==
    input.kind = "cpu" =>
        LET utilization == get_and_update_cpu_utilization(input.last, input.stat)
            energy      == cpu_energy(input.last, input.stat, input.freq)
        IN  /\ 0 <= utilization[1] /\ utilization[1] <= 100 * utilization[2]
            /\ InTheTable(get_cpu_freq(utilization, input.freq)) =>
                  0 <= energy /\ energy <= estimate_pegged_cpu_energy(1)

\* The macros agree with arithmetic on single numbers, and leave their results
\* normalised; TIMEDIFF's assertion fails exactly if the first instant is later; and
\* "diff.tv_sec >= 1" is true exactly if a second has passed.
TimevalsAddUp ==
    input.kind = "time" =>
        LET b    == input.begin
            e    == input.end
            diff == TIMEDIFF(b, e)
            sum  == timeradd(b, e)
            sub  == timersub(e, b)
        IN  /\ NotBefore(e, b) <=> InSubseconds(e) >= InSubseconds(b)
            /\ Normalised(sum) /\ InSubseconds(sum) = InSubseconds(b) + InSubseconds(e)
            /\ Normalised(sub) /\ InSubseconds(sub) = InSubseconds(e) - InSubseconds(b)
            /\ NotBefore(e, b) =>
                  /\ Normalised(diff)
                  /\ InSubseconds(diff) = InSubseconds(e) - InSubseconds(b)
                  /\ diff.tv_sec >= 1 <=> InSubseconds(e) - InSubseconds(b) >= MAX_SUBSECS
=============================================================================
