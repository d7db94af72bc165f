# libpowertutor in TLA+

libpowertutor estimates the energy a phone's 3G radio, wifi radio and CPU use. It polls the
byte and packet counters of the interfaces, keeps a state machine of the cellular radio
(IDLE, FACH, DCH with their inactivity timers, the "tail") and a rate for the wifi radio,
charges energy once a second, and answers what a transfer would cost. These modules
specify that code (`src/cpp_source/libpowertutor.cpp` unless another file is named), TLC
checks small instances of them, and TLAPS proves the safety properties for every value of the
constants.

## Inventory

| Component | State | Operations | Interacts with | What makes it correct |
|---|---|---|---|---|
| Power model (`power_model.h`, `.cpp`) | constants of a phone: powers, timers, thresholds, CPU table | `get_dch_threshold`, `power_coeff`, `cpu_power_coeff` | read by everything | interpolation between neighbours |
| Cellular tracker | `mobile_state`, three stamps, last bytes and delta, times and idle times per state | `update_mobile_state`, `get_mobile_queue_len`, `time_fraction_in_state`, its part of `reset_stats` | counters, callback, statistics, estimate; `mobile_state_lock` | climbs on activity, falls one full timer at a time, never over unseen traffic, never late; times and averages add up |
| Wifi tracker | `wifi_*` rates and last counts, `last_wifi_observation` | `update_wifi_estimated_rates`, `wifi_packet_rate`, its part of `reset_stats` | counters, callback, statistics, estimate; `wifi_state_lock` | rates account for the traffic; the assertion of the first observation; a silent radio is low |
| Interface counters | `/proc/net/dev`, or the mocked map of the simulation | `get_net_dev_stats`, `add_*` | read by both trackers and by queue queries | a failed read changes nothing; no lost update |
| Consumption statistics | `last_update`, energy per component, bytes | `update_consumption_stats`, queries, its part of `reset_stats` | reads both trackers; `stats_lock` | each second and each byte charged once |
| Handset poll | callback | `update_energy_stats`, `register_mobile_activity_callback`, `reset_stats` | calls all of the above in order | failures stay local; activity is reported |
| Update thread | `running`, condition variable | `NetworkStatsUpdateThread`, init, fin | polls every 100 ms, beside the application's resets and queries | no deadlock, stops when asked, no poll sees half a reset |
| Energy estimates | none (a snapshot per functor) | `get_energy_computer`, `estimate_*` | reads the trackers under their locks | the marginal energy of a transfer; a consistent snapshot |
| Remote power model | `remote_state`, `remote_last_mobile_activity` | `report_remote_mobile_activity`, `update_remote_power_model` | fed by the handset's callback over an application's channel | the tail again; never below the handset unless a report is missing, never high for longer than the delays explain |
| CPU utilisation | last totals of `/proc/stat` | `get_and_update_cpu_utilization`, `get_cpu_freq`, `cpu_power_coeff` | statistics | between 0 and 100; no second above the pegged estimate |
| Time arithmetic (`timeops.*`) | none | `TIMEDIFF`, `timeradd`, `timersub`, `abs_time` | everything that reads the clock | borrows and carries; the assertion fails exactly if the order is wrong |
| Others | | mocked counters of the simulation, lock-wrapped containers (`pthread_util.h`), JNI and Java bindings, supplicant client (`wifi.cpp`, compiled out), logging, tests and scripts | | see `PROJECT.json` |

What is hard here: three clocks that are restarted by whichever poll finds them due (samples,
observations, charges), compared with timers that run on a fourth; counters that vanish,
restart from zero or outgrow an int; sums kept over months of polls; `reset_stats` writing
under one lock what polls write under two others; queries that read in several critical
sections what a poll changes in one; reports that arrive late, out of order or not at
all. `hazards` in `PROJECT.json` lists each at its line, with the property that covers it.

## Modules

    PowerModel                     timers, thresholds, radio states
     ├─ RadioTail                  abstract: the promise of a cellular tracker
     ├─ MobileEstimate             cost of a cellular transfer   MobileEstimateProofs
     ├─ WifiEstimate               cost of a wifi transfer
     ├─ ConsumptionStats           energy and bytes charged
     ├─ StatsThreads               update thread, application, locks, clock readings
     │                                                       StatsThreadsProofs
     ├─ RemotePowerModel           the server's copy of the radio
     │   └─ RemoteReporting        handset (RadioTail), network and server;
     │                             the server implements RadioTail    RemoteReportingProofs
     └─ Platform                   build, clock, polls, counters
         ├─ MobileTracker          cellular tracker, implements RadioTail    MobileTrackerProofs
         │   ├─ Handset            EXTENDS MobileTracker, INSTANCEs WifiTracker
         │   │                     and ConsumptionStats         HandsetProofs
         │   └─ EnergyQueries      queries in several steps beside the polls;
         │                         the average estimate (INSTANCEs MobileEstimate)
         │                                                   EnergyQueriesProofs
         └─ WifiTracker            wifi tracker
             └─ WifiHistory        with history variables    WifiHistoryProofs
    CpuUtilisation, TimeOps        arithmetic of the CPU's energy and of instants
     └─ MCCalculations             they and both estimates, input by input
                                                             CalculationsProofs

Variables and operators carry the names of the statics and functions they model.

- **PowerModel.** Time is counted in ticks, `SECOND` to a second. A test of `tv_sec` in the
  code is a comparison with `SECOND`, so behaviour between whole seconds is modelled, not
  rounded away. The assumptions ask only that timers are at least a second.
- **Platform.** What a poll runs on. `MinPollGap` and `MaxPollGap` bound the time between two
  polls (the thread waits 100 ms, but the scheduler may add to it; the simulation polls when it
  likes); `Readable` is the outcome of `get_net_dev_stats`; `IFACE_RESTARTS` lets an
  interface leave the list and come back from zero; `SIMULATION_BUILD` gives mocked counters,
  which are always readable and which a reset clears.
- **MobileTracker.** One action per branch of `update_mobile_state` (`UpdateReadFails`,
  `UpdateBaseline`, `UpdateActivity`, `UpdateQuiet`), `ResetStats`, and the environment
  (`Tick`, `Transfer`, `DevDown`, `DevUp`). The two promotion tests of the code collapse
  into `Promoted`: the second one is implied by the first, and a mutant shows that
  leaving DCH out of it is noticed. `mobile_last_bytes` is -1 before the first sample,
  as in the code. `last_poll` and `last_traffic` are history.
- **RadioTail.** Elapse, activity, the two demotions and a restart. `ImplementsRadioTail`
  maps `state` to `mobile_state` and `idle_since` to `last_mobile_activity`.
- **EnergyQueries.** `get_energy_computer` as the code runs it: the counters without a
  lock (`QueryReadCounters`), the queues (`QueryQueues`), the state (`QueryState`), the idle
  time (`QueryIdle`), with any polls, transfers, faults and resets in between that fit in
  `MaxQueryTime`. The queue's answer is `get_mobile_queue_len` of MobileTracker, the half of
  the function under the lock, given the reading of the counters from before it.
  `estimate_mobile_energy_cost_average` is eight steps: the question, then for each of the three
  states the average idle time with the cost made of it (`QueryCost`) and the weight with its own
  reading of the clock (`QueryWeight`), each under an acquisition of its own, then the
  answer. `Watch` keeps the history the properties compare with.
- **WifiTracker, WifiHistory.** The four outcomes of `update_wifi_estimated_rates`; `calc_rates`
  with its rounding up. WifiHistory adds what the interface carried and what the rates
  amount to, for the properties that compare the two.
- **ConsumptionStats.** Actions over its own variables only, given what they read of the
  trackers. The CPU's share of a second is any member of `CpuEnergies`.
- **Handset.** `UpdateEnergyStats` is the conjunction of both trackers' updates, the report
  and the charge, in the state as the code's order leaves it: the report and the charge
  read primed variables because they come after the trackers.
- **StatsThreads.** The same poll and the same reset, taken apart: `pc` of each thread
  moves from one acquisition, release, clock reading or TIMEDIFF to the next, `owner` is
  who holds each of the four mutexes, `clock` the local `now` a thread has read. The life of
  the update thread runs from `pthread_create` at the end of the constructor to the loop that finds `running`
  false; waiting lets go of `update_thread_lock` and may end at any time. What the trackers
  compute is left out, except for stamps that another thread may set and for which wifi
  arrays still hold -1, which the assertions are about.
- **RemotePowerModel, RemoteReporting.** Both operations of the server hold its lock from
  beginning to end and are one step each. The handset is RadioTail, which MobileTracker is
  proved to implement, with samples a second apart and timers compared in every poll. `network`
  holds the reports under way: each may be lost, overtaken, or delivered up to `MaxDelay`
  later. With `FOLLOWS_HEADER` the server's application passes on only the reports that the header
  allows (`MayReport`: "only ... to move the model to a higher state (or maintain its state and
  report another activity in that state)"); with `ONLY_ACTIVITIES`, only those that tell of a
  queue, which is more than the header asks; without either, every report, as the test server
  does.
- **MobileEstimate.** Energies are kept as integers by multiplying with the bandwidth; the
  conversions to int are the divisions in `InMilliJoule`. `queue_len + datalen` wraps as
  `size_t` does.
- **WifiEstimate, CpuUtilisation, TimeOps.** Pure operators. `ceil` of a double is the
  rounding of a rational; utilisation and interpolated coefficients are pairs of numerator and
  denominator until the product is converted to int. The totals of `/proc/stat` that the code
  keeps are the first of the two readings an operator is given.
- **MC\*.** Values of the constants that a configuration file cannot write. MCCalculations
  also drives the pure operators, one input to a state.

In each module, an operator named for a slip (`StoredDownOnly`, `TimedOutInDCH`,
`ReportWithoutStamp`, `WakeToPoll`...) stands before the one it is a slip of. None of them is
part of a specification: substituted for its neighbour, it makes a property fail, and shows
that the property has something to say about the code.

## Runs

Every passing run explores its state space completely. Timers of 2 to 4 ticks with 2 ticks to a
second keep the order of the phone's constants (a second is at most a timer), thresholds of 2
and 3 bytes with transfers of 1 to 3 let a sample fall below, between and above them,
and the clock runs long enough for a promotion, both timeouts and a second burst around
a reset.

| Run | Asks | Bounds that matter |
|---|---|---|
| MobileHandset | the tracker with readable counters: queue, tail, refinement; which queries can be told of a negative queue | a poll each tick; 7 s of clock; reset at tick 7; a query begins at tick 6 and takes a tick at most (`MaxQueryTime`): room for two polls, and for the reset and its poll, before it has the lock |
| MobileFaults | what holds with an interface that goes, restarts and outgrows `INT_MAX`, and of answers and average estimates that polls overtake | gaps of 1 or 2 ticks; counters to 6 with `INT_MAX` 4; a query or an average estimate begins at tick 6 and takes a tick at most, with transfers, polls, a change of state or the reset of tick 7 between its steps |
| WifiHandset | rates against the traffic, the assertion, silence | gaps of 1 or 2 ticks; two bursts per direction fit the counters |
| HandsetPolls | energy against time, bytes against traffic, reports | the simulation build; gaps of 1 or 2; 4 s of clock |
| HandsetFaults | either interface failing beside the other; energy still follows time | both may restart and outgrow `INT_MAX` 3 |
| Calculations | every case of both estimates, of the CPU's energy and of the time macros | real powers, thresholds and packet sizes of the Nexus One; idle times around both timers; four table entries and frequencies in, between, below and above them; seconds of 4 subseconds |
| Remote | server against handset over the network, only reports that the header allows and that tell of a queue passed on | timers of 4 and 3 ticks, timeout 3, as in the code 1.5 s < timers; delays to 2 ticks, 2 reports in flight (enough for one to overtake another); one reset; the clock reaches a whole tail and the delays after the first report (`MaxTime` 16) |
| Threads | the update thread and the application, step by step | 3 s of clock, which advances between any two steps; a reset holds its lock for less than a second (`MaxResetTime` 1, `SECOND` 2) |

Four runs end in a violation. Each shows where the code does not do what its header, a
comment or a test says; `findings` in `PROJECT.json` quotes the lines.

| Run | What happens |
|---|---|
| HandsetUndercount | a sample that no charge coincides with is zeroed by the next poll and never counted |
| ThreadsReset | `reset_stats` in another thread sets a stamp past the clock reading of a poll in progress; TIMEDIFF's assertion aborts |
| QueriesTorn | a poll between two reads of `get_energy_computer` takes DCH to FACH; the computer keeps DCH with an idle time of zero |
| RemoteTail | a report of a higher state, which the header allows, but without a queue, as a high wifi packet rate sends it, is taken over without a stamp; the next poll drops the state at once |

Each violation run differs from a passing one in a constant or two (`CONCURRENT_RESETS`,
`ONLY_ACTIVITIES`, the instant of the query), or only in the property.

Some properties of the passing runs need the assumption their run makes; without it they fail,
and the code's behaviour then is this. While an interface cannot be read its tracker returns
early: timers are not compared (a radio stays in DCH or FACH, `TailBounded`), the last sample's
bytes stay behind (`QueueIsFresh`) and are charged again every second (`NoByteCountedTwice`),
the last rate stays (`SilentWifiIsLow`). After an interface has restarted from zero, queue
lengths and rates are negative until the next sample (`QueueNonNegative`, `RatesNonNegative`).
Even without restarts, `get_mobile_queue_len` can answer with a negative number, because it reads
the counters before it takes the lock: when two polls sample in between, or a reset and its poll,
or the first sample after a reset, the reading is older than the sample it is compared with.
`QueueNonNegative` says that it takes that, and bounds how negative the answer gets.
A reset between two weights of the average estimate starts the times they are fractions of anew:
the weights then have nothing to do with each other, and `AverageWithinExtremes` speaks of
estimates that no reset overtakes. A reset that takes a second or more finds a charge due in its
own poll and waits for `stats_lock`, which it holds: with `MaxResetTime` 3 in place of 1, TLC finds
`NoThreadWaitsForItself` violated. A server whose application passes on reports that tell of no
queue does not keep the tail (run RemoteTail).
A charge covers one second however long ago the last one was, so time beyond it is never
charged (`EnergyFollowsTime` bounds the loss from below by the gap between polls).

**Properties.** Beyond one type invariant per module:

- *The tail.* `FullTail` and `ImplementsRadioTail` (each fall takes a full timer),
  `NoDemotionOverUnseenTraffic`, `TailBounded` (the tracker is neither early nor late),
  `TimeAccounted` (times per state sum to the time since the reset), `IdleAverageBelowTimer`.
- *Queues and queries.* `QueueIsFresh`; `OvertakenQueueHolds` (a queue length read across a
  poll is the one asked for, less at most what the poll dropped); `QueueNonNegative` (one below
  zero takes two polls, or the first sample after a reset, and is bounded by the traffic
  meanwhile); `AverageWithinExtremes` (the three weights, read at three moments, take from one
  state what they give to another, so the average leaves the extremes of the costs by no more
  than the share of time that went by while it was asked);
  `BoundToOneMoment` (violated).
- *Wifi.* `RatesCoverTraffic` (the rates neither lose nor invent packets, to less than one a
  second), `RatesNonNegative`, `FirstObservationAssert`, `SilentWifiIsLow`.
- *Handset.* `EnergyFollowsTime`, `NoByteCountedTwice`, `SampledBytesAreCounted` (violated),
  `PromotionsAreReported`, `RunsMobileTracker`, `RunsWifiTracker`.
- *Server.* `ServerCoversHandset` (never below the handset unless its last report is missing or
  its timer as good as expired), `ServerFallsIdle` and `NothingStaleIsKept` (never high, or full,
  for longer than the delays explain), `ImplementsServerTail`, `ServerFullTail` (violated
  by reports that tell of no queue).
- *Threads.* `AssertionsHold` (violated with concurrent resets), `NoThreadWaitsForItself`,
  `NoPollAfterFin`, `PollsGoOn`, `CallsReturn`, `FinStopsThread`.
- *Calculations.* `EstimatesMarginalEnergy`, `WifiEstimateCovers`, `CpuChargeBelowPegged`,
  `TimevalsAddUp`, each against a definition that says what the result means.

**Fairness.** Only Threads has liveness. `FairThreadsSpec` asks strong fairness of each
thread's next step: the scheduler runs every thread, and a mutex that is free again and again
is got at last. Strong rather than weak, because a step that waits for a mutex is enabled
only while nobody holds it. The code justifies it: each critical section is a bounded piece of
work, and the update thread gives up `update_thread_lock` for 100 ms between polls. A default
mutex promises no more than that its holder lets go, so a scheduler that lets the
update thread take the lock again at every opportunity is excluded by assumption. Nothing makes
the application call or the clock advance. All other promises about time are bounds under
`MaxPollGap` and `MaxDelay`, which say more than "eventually" and are safety properties.

**Deadlock** is checked in every run: at the end of the clock `Horizon` steps stutter, as
`Ended` and `Calculated` do when there is nothing left to do, and nothing else may stop.

## Proofs

Every invariant, refinement and action property of the passing runs is also a theorem, for
every value of the constants that the modules' assumptions admit: every power model (timers
of at least a second, positive thresholds), every schedule of polls and resets, every set
of transfers, bursts, delays and reports. The bounds of the runs (`MaxTime`, `MaxBytes`,
`MaxPackets`...) are constants of the theorems like any other. What a theorem assumes beyond that
stands in its statement:

| Hypothesis | What it says of the code's surroundings | Without it |
|---|---|---|
| `~IFACE_RESTARTS` | the interface stays listed and its counters are not reset by the system | negative queues and rates until the next sample (see *Runs*) |
| `FaultFree` | and its counters fit the int they are parsed into | a failed read leaves the last sample and the timers as they are |
| `[]CanReadWifi` | the wifi counters can always be read | the last rate stays |
| `FOLLOWS_HEADER`, `ONLY_ACTIVITIES` | the server's application passes on only reports that the header allows, and of those only the ones that tell of a queue | run RemoteTail |
| `MaxResetTime < SECOND` | no `reset_stats` takes a second | it waits for itself; `OnlySlowResetDeadlocks` says exactly how |
| `~CONCURRENT_RESETS` | no `reset_stats` beside the update thread | run ThreadsReset |
| `CpuEnergies # {}` | the CPU's charge has a value | no poll could charge |

- **MobileTrackerProofs.** `TInv` is the type invariant strengthened with the order of the
  stamps (none lies in the future, and the clock is past its first second), without which
  the durations would not be natural numbers; `TypeCorrect` follows. `TimesAddUp` needs only `TInv` and the fact that
  a change adds exactly what it takes from the running stay. For the tail, `TailOrder` says
  that outside IDLE the running timer was started no earlier than the state was entered, and
  no earlier than the last sample, and that there is a baseline; `StaysLastATimer`, `IdleAverageBounded` and, with
  `CounterOrder` (samples never run ahead of the counters, given that nothing restarts),
  `SeenBeforeDemotion` rest on it. `SampleNonNegative` (the last sample was itself a difference of
  ordered counters) is there for the handset and the queries. `Refinement` is the step simulation, action
  by action. `QueueFresh` and `SilenceIsNoticed` assume `FaultFree`;
  for the second, `Prompt` bounds how late traffic, and then each stage of the tail, is
  noticed.
- **HandsetProofs.** Each step of the handset is a step or a stutter of each tracker
  (`HandsetRunsMobileTracker`, `HandsetRunsWifiTracker`), so what is proved of the trackers
  holds of the handset; `HandsetImplementsTail` is what RemoteReporting relies on when it
  puts RadioTail in the handset's place. `BytesChargedOnce`, from `ChargedInv`: the
  bytes charged and the bytes no sample has seen together fit in the bytes carried, and
  before the baseline nothing has been charged. `EnergyFollows` and `HandsetTypeCorrect` carry the
  invariants of both trackers along (`TrackersInv`), because a charge is only known to be a
  count if the rates and the sample it is made of are. `ChargeTimes` says that every poll
  leaves less than a second uncharged; `EnergyBounds` compares products, since what a
  second costs is only known between two powers. `PromotionsReported`: with the sample
  taken, the queue that `get_mobile_queue_len` reports is exactly what the sample found, one
  direction of which grew; and no sample is left over from before the baseline (`QInv`).
- **WifiHistoryProofs.** `WifiInv` adds to the types that the arrays are filled and emptied together
  (`KnownTogether`), which is what the assertion of the first observation is about, and it is not
  inductive without it. `RatesAlwaysCover` is an argument over all observations: `Telescope`
  states both bounds of the sum as it stands, and an observation adds to each side what the
  rounding up of `calc_rates` allows; it needs no hypothesis, since a negative rate after a restart
  is as exact as a positive one. `RatesNeverNegative` rests on `Monotone`;
  `SilentWifiIsKnownLow` on `Prompt`, which ties the last observation to the last poll
  and a positive rate to traffic in the interval it was taken over.
- **EnergyQueriesProofs.** The queries leave the tracker alone (`QueriesRunTracker`), so `TInv` and
  `TimeAccounted` hold beside them. `OvertakenQuery`: `AnswerHolds` says what a query would
  answer if it took the lock now; a transfer or a quiet poll changes nothing in it, and a poll
  that samples adds to the sample what it takes from the stale counters' difference. No
  hypothesis: a counter that restarts changes neither. `NegativeOnlyIfOvertaken` adds, for an
  interface that does not restart, `AskedHolds`: what was asked for was a count and held the
  sample that expires, and however many polls come between, the sample is never of more than the
  counters of now. `AverageStaysWithinExtremes` rests on `WeightsHold`: while the estimate is under
  way, the weights read so far and the times of the states still to be weighed together make
  up at least the whole that the first weight is a fraction of, since times only grow
  (`TimesGrow`) and a poll that changes the state moves no time out of the sum (`TimeAccounted`);
  and the three together at most the whole of the last. `WeighedAverage` is the arithmetic that
  turns this into the bounds.
- **RemoteReportingProofs.** `ReportingInv` (no hypothesis) is what the network may hold: no
  report is too old, none tells of an activity later than the last, and the one that was
  sent last says at least the handset's state. `Aging` bounds what the server
  holds by its own timers. `Covered` is the heart of `ServerCovers`: once the last report is
  handled, the server is at the handset's state, or has come down from it by a timer it
  started no earlier than the handset its own. `ServerImplementsTail` needs `Aging` only: a report that is
  passed on is a climb or a renewal, with its stamp, and a poll steps down after a timer.
- **StatsThreadsProofs.** `LockInv`: each mutex is owned by exactly the thread whose `pc` lies in
  its critical section (`Mutexes`), a reset in progress began no longer than `MaxResetTime` ago and
  its poll comes back for `stats_lock` only if a second has gone by since (`ResetTimed`), and the loop is stopped before the destructor returns (`StoppedAtEnd`). `MutualExclusion`,
  `OnlySlowResetDeadlocks` and `QuietAfterFin` are its consequences, with or without concurrent
  resets; so is `NoSelfDeadlock`, for resets that take less than a second.
  `AssertionsNeverFail` adds `ClockInv`: a stamp that a thread compares with its reading of the
  clock was set before that reading, either because the reading was taken under the lock under
  which the stamp is set (the sample, the reset), or because only a poller sets the stamp and there
  is one poller at a time (the observation, the charge). Run ThreadsReset shows what a
  second poller does to the latter.
- **MobileEstimateProofs.** `EstimateCorrect`: case by case over the old and the new state,
  the two parts of the estimate sum to the energy of the transfer and its whole tail less
  the rest of the tail in progress, to within the rounding of each part.
- **CalculationsProofs.** About the operators themselves, for every input and not only the
  enumerated ones: `TimevalArithmetic` for all normalised instants, `WifiEstimateRight` for
  all transfers (the witnesses are the two roundings up), `CpuChargeBounded` for every table of
  coefficients that grows with the frequency. For the last, an entry above and one below a
  frequency between two entries exist because numbers are well founded, and the
  interpolation is a weighted mean of the two; counters that have not run backwards make
  the utilisation a percentage. `CalculationsRight` puts the three together over `CalcSpec`.

Only model-checked: the liveness of the threads (`PollsGoOn`, `CallsReturn`, `FinStopsThread`),
which is out of the proof system's reach because it depends on fairness and thus on ENABLED; and
the four violations, which are shown by their counterexamples.

## Abstractions and limits

- Outside StatsThreads and EnergyQueries a poll, and a reset, is one step that takes no
  time. StatsThreads has one application thread; several would only add callers
  of the same operations. It keeps one of the mobile stamps, for three that are set and compared alike, and
  reads `/proc/net/dev` without a lock, as the code does. The activity callback runs in the update
  thread with `update_thread_lock` held; one that did not return would stop everything,
  and the header asks that "callbacks must not block": it takes no step of its own.
- Nothing in the code bounds the time a reset takes; `MaxResetTime` does. A reset of a second or
  more finds a charge due in its own poll and waits for `stats_lock`, which it holds. The run
  takes quicker ones, and `OnlySlowResetDeadlocks` proves, for every `MaxResetTime`, that this is
  the only self-deadlock of the code.
- The costs that the average estimate weighs are computed from average idle times rounded down to
  ticks; the weights are kept as fractions, and the only other rounding is the conversion of the
  sum to int.
- `NoPollAfterFin` says the update thread is in no poll once the library's destructor has
  returned; that the power models are deleted after it is the order of destruction of the
  loader.
- The clocks of handset and server run at one pace. The queues of a report are abstracted to empty
  or not; what they hold does not matter to the server's state.
- `get_energy_computer` binds, in the code, all it reads; only the torn pair of state and idle
  time is a property, and the queue's answer is judged as it is read.
- An interface that comes back does so from zero; a counter that does not fit an int cannot
  be read, as `operator>>` fails. One reading of an interface is one moment.
- The clock never steps back (`TIMEDIFF` asserts as much), and is past its first second
  when the library is loaded.
- `wifi_channel_rate` returns its constant 54, the only value the build can produce.
- The wifi packet rate is -2 until there were two observations, and the wifi estimate adds it to
  the packets of the transfer; `WifiEstimateCovers` takes the rate as it is.

## Not modelled

- `wifi.cpp`, `wifi.h`: the vendored client of Android's supplicant; its only caller is compiled
  out.
- `LockWrappedQueue`, `LockWrappedMap`: used by nothing in the library. `debug.*`, `utils.*`,
  `jni_wrappers.cpp`: formatting, output and one-line wrappers.
- The Java class `EnergyUsage` subtracts a baseline from the totals, and asserts that they have
  not fallen; a reset in between makes the assertion fail, and nothing in the Java
  classes resets.
- `add_value_to_array` of the simulation, a read and a write in two critical sections, used by
  single-threaded tests. `timerdiv` and the conversions to microseconds.
- The value of `average_power_consumption_since_reset_by_component`, a double divided by a time
  that may be zero.

## Plan

1. *(done)* The cellular tracker and the tail it implements; the wifi tracker; the statistics
   and the poll that composes them; the estimates; their proofs.
2. *(done)* The server's tracker and its composition with the handset's reports; the threads and
   locks; queries beside polls; the arithmetic.
3. *(done)* Proofs of every safety property and refinement that the passing runs check.
4. What holds where a property is violated, as theorems: how far apart the state and the idle time
   of a torn query can be (QueriesTorn); which bytes are lost to the statistics, namely those of
   samples that no charge coincided with (HandsetUndercount); what a server keeps of the tail when
   reports tell of no queue (RemoteTail).
