---------------------------- MODULE StatsThreads ----------------------------
(***************************************************************************)
(* The threads of the library on the handset (libpowertutor.cpp): the      *)
(* update thread from its creation to its end, and the application's       *)
(* thread, which loads the library, resets the statistics, asks, and       *)
(* unloads it.  A step is what happens between two acquisitions, releases  *)
(* or readings of the clock: the four mutexes, every reading of the clock, *)
(* and every TIMEDIFF between such a reading and a stamp that another      *)
(* thread may have written.                                                *)
(*                                                                         *)
(* The radios themselves are MobileTracker's and WifiTracker's business:   *)
(* of the mobile_* stamps, which are set and compared alike, only          *)
(* last_mobile_sample_time is kept, and of the wifi_* arrays only whether  *)
(* they hold anything but -1.  A critical section that neither reads the   *)
(* clock nor writes is one step that needs the lock to be free.            *)
(***************************************************************************)
EXTENDS PowerModel

CONSTANTS
    Updater,            \* NetworkStatsUpdateThread
    App,                \* the thread of the application
    NoThread,
    CONCURRENT_RESETS,  \* the application resets while the update thread runs
    MaxResetTime,       \* environment: longest time a reset holds stats_lock
    StartTime,          \* the clock when the library is loaded
    MaxTime             \* bound of the model: the clock stops here

Thread == {Updater, App}

ASSUME ThreadsAssumption ==
    /\ Updater # App
    /\ NoThread \notin Thread
    /\ CONCURRENT_RESETS \in BOOLEAN
    /\ MaxResetTime \in Nat
    /\ StartTime \in Nat
    /\ MaxTime \in Nat

Lock == {"update_thread_lock", "stats_lock", "mobile_state_lock", "wifi_state_lock"}
WifiArray == {"rates", "bytes", "packets"}

VARIABLES
    now,
    owner,                      \* of each mutex
    pc,                         \* of each thread: the step it comes to
    clock,                      \* of each thread: its local `now`, 0 out of its scope
    running,
    last_reset, last_update,
    last_mobile_sample_time,
    last_wifi_observation,
    wifi_known                  \* the wifi arrays that hold anything but -1

stamps == <<last_reset, last_update, last_mobile_sample_time,
            last_wifi_observation, wifi_known>>
threadsvars == <<now, owner, pc, clock, running, stamps>>

\* The steps of update_energy_stats, reset_stats, the queries, and the life of
\* the update thread, in the order of the code.
PollSteps  == {"wifi_clock", "wifi_lock", "wifi_diff", "wifi_rates", "wifi_store",
               "mobile_lock", "mobile_clock", "mobile_diff",
               "report_lock", "report_clock", "report_diff",
               "charge_clock", "charge_diff", "charge_reads", "charge_lock",
               "charge_add", "poll_done"}
ResetSteps == {"reset_lock", "reset_totals", "reset_mobile", "reset_rates",
               "reset_bytes", "reset_packets", "reset_observation",
               "reset_stamps", "reset_unlock"}
QuerySteps == {"queue_lock", "queue_clock", "queue_diff",
               "power_lock", "power_clock", "power_diff"}
LifeSteps  == {"unborn", "start", "loop", "waiting", "idle", "fin_lock",
               "fin_signal", "ended"}

Goto(t, step) == pc' = [pc EXCEPT ![t] = step]
Acquire(t, lock) ==
    /\ owner[lock] = NoThread
    /\ owner' = [owner EXCEPT ![lock] = t]
Release(lock) == owner' = [owner EXCEPT ![lock] = NoThread]
ReadClock(t) == clock' = [clock EXCEPT ![t] = now]
LeaveScope(t) == clock' = [clock EXCEPT ![t] = 0]     \* the local is gone

\* The library is loaded by the application's thread: its constructor resets the
\* statistics before it creates the update thread.
ThreadsInit ==
    /\ now = StartTime
    /\ owner = [lock \in Lock |-> NoThread]
    /\ pc = [t \in Thread |-> IF t = App THEN "reset_lock" ELSE "unborn"]
    /\ clock = [t \in Thread |-> 0]
    /\ running = TRUE
    /\ last_reset = 0
    /\ last_update = 0
    /\ last_mobile_sample_time = 0
    /\ last_wifi_observation = 0
    /\ wifi_known = {}
-----------------------------------------------------------------------------
(* update_wifi_estimated_rates.                                            *)

\* The clock is read before wifi_state_lock is taken.  If the counters cannot be
\* read, the mobile tracker's turn comes at once.
WifiClock(t) ==
    /\ pc[t] = "wifi_clock"
    /\ \/ Goto(t, "wifi_lock") /\ ReadClock(t)
       \/ Goto(t, "mobile_lock") /\ UNCHANGED clock
    /\ UNCHANGED <<now, owner, running, stamps>>

WifiLock(t) ==
    /\ pc[t] = "wifi_lock"
    /\ Acquire(t, "wifi_state_lock")
    /\ Goto(t, "wifi_diff")
    /\ UNCHANGED <<now, clock, running, stamps>>

\* TIMEDIFF(last_wifi_observation, now, diff), and the early return.
WifiDiffKeepsLock(t) ==
    /\ pc[t] = "wifi_diff"
    /\ Goto(t, IF HasElapsedSecond(clock[t] - last_wifi_observation)
               THEN "wifi_rates" ELSE "mobile_lock")
    /\ UNCHANGED <<now, owner, clock, running, stamps>>
WifiDiff(t) ==
    /\ pc[t] = "wifi_diff"
    /\ \/ /\ HasElapsedSecond(clock[t] - last_wifi_observation)
          /\ Goto(t, "wifi_rates")
          /\ UNCHANGED <<owner, clock>>
       \/ /\ ~HasElapsedSecond(clock[t] - last_wifi_observation)
          /\ Goto(t, "mobile_lock")
          /\ Release("wifi_state_lock")
          /\ LeaveScope(t)
    /\ UNCHANGED <<now, running, stamps>>

\* The assertion of the first observation; or TIMEDIFF a second time, and calc_rates.
WifiRates(t) ==
    /\ pc[t] = "wifi_rates"
    /\ wifi_known' = IF "bytes" \in wifi_known
                     THEN wifi_known \cup {"rates"} ELSE wifi_known
    /\ Goto(t, "wifi_store")
    /\ UNCHANGED <<now, owner, clock, running, last_reset, last_update,
                   last_mobile_sample_time, last_wifi_observation>>

WifiStore(t) ==
    /\ pc[t] = "wifi_store"
    /\ wifi_known' = wifi_known \cup {"bytes", "packets"}
    /\ last_wifi_observation' = clock[t]
    /\ Release("wifi_state_lock")
    /\ LeaveScope(t)
    /\ Goto(t, "mobile_lock")
    /\ UNCHANGED <<now, running, last_reset, last_update, last_mobile_sample_time>>
-----------------------------------------------------------------------------
(* update_mobile_state.                                                    *)

\* The counters are read before the lock; if they cannot be, it is not taken.  The
\* activity callback follows if either tracker fired.
MobileLockOrGiveUp(t) ==
    /\ pc[t] = "mobile_lock"
    /\ \/ Acquire(t, "mobile_state_lock") /\ Goto(t, "mobile_clock")
       \/ Goto(t, "ended") /\ UNCHANGED owner
    /\ UNCHANGED <<now, clock, running, stamps>>
MobileLock(t) ==
    /\ pc[t] = "mobile_lock"
    /\ \/ Acquire(t, "mobile_state_lock") /\ Goto(t, "mobile_clock")
       \/ Goto(t, "charge_clock") /\ UNCHANGED owner
       \/ Goto(t, "report_lock") /\ UNCHANGED owner
    /\ UNCHANGED <<now, clock, running, stamps>>

MobileClock(t) ==
    /\ pc[t] = "mobile_clock"
    /\ ReadClock(t)
    /\ Goto(t, "mobile_diff")
    /\ UNCHANGED <<now, owner, running, stamps>>

\* TIMEDIFF(last_mobile_sample_time, now, time_since_last_sample); a sample is
\* taken at most once a second, and stamped with a second reading of the clock.
MobileDiff(t) ==
    /\ pc[t] = "mobile_diff"
    /\ \/ /\ HasElapsedSecond(clock[t] - last_mobile_sample_time)
          /\ last_mobile_sample_time' = now
       \/ UNCHANGED last_mobile_sample_time
    /\ Release("mobile_state_lock")
    /\ LeaveScope(t)
    /\ Goto(t, "report_lock") \/ Goto(t, "charge_clock")
    /\ UNCHANGED <<now, running, last_reset, last_update, last_wifi_observation,
                   wifi_known>>
-----------------------------------------------------------------------------
(* get_mobile_queue_len: the counters, the lock, the clock, and               *)
(* TIMEDIFF(last_mobile_sample_time, now, diff).                           *)

get_mobile_queue_len_clock_first(t, lock, clk, diff, next) ==
    \/ /\ pc[t] = lock
       /\ ReadClock(t)
       /\ Goto(t, clk)
       /\ UNCHANGED <<now, owner, running, stamps>>
    \/ /\ pc[t] = clk
       /\ Acquire(t, "mobile_state_lock")
       /\ Goto(t, diff)
       /\ UNCHANGED <<now, clock, running, stamps>>
    \/ /\ pc[t] = diff
       /\ Release("mobile_state_lock")
       /\ LeaveScope(t)
       /\ Goto(t, next)
       /\ UNCHANGED <<now, running, stamps>>
get_mobile_queue_len(t, lock, clk, diff, next) ==
    \/ /\ pc[t] = lock
       /\ Acquire(t, "mobile_state_lock")
       /\ Goto(t, clk)
       /\ UNCHANGED <<now, clock, running, stamps>>
    \/ /\ pc[t] = clk
       /\ ReadClock(t)
       /\ Goto(t, diff)
       /\ UNCHANGED <<now, owner, running, stamps>>
    \/ /\ pc[t] = diff
       /\ Release("mobile_state_lock")
       /\ LeaveScope(t)
       /\ Goto(t, next)
       /\ UNCHANGED <<now, running, stamps>>

\* The report for the activity callback; its two other reads need the locks for a
\* moment, as the reads of a charge do.  The callback itself does not block.
Report(t) ==
    get_mobile_queue_len(t, "report_lock", "report_clock", "report_diff", "charge_clock")
-----------------------------------------------------------------------------
(* update_consumption_stats.                                               *)

ChargeClock(t) ==
    /\ pc[t] = "charge_clock"
    /\ ReadClock(t)
    /\ Goto(t, "charge_diff")
    /\ UNCHANGED <<now, owner, running, stamps>>

\* TIMEDIFF(last_update, now, diff), without a lock.
ChargeDiffOnAnyTime(t) ==
    /\ pc[t] = "charge_diff"
    /\ \/ /\ clock[t] > last_update
          /\ last_update' = clock[t]
          /\ Goto(t, "charge_reads")
       \/ /\ clock[t] <= last_update
          /\ Goto(t, "poll_done")
          /\ UNCHANGED last_update
    /\ LeaveScope(t)
    /\ UNCHANGED <<now, owner, running, last_reset, last_mobile_sample_time,
                   last_wifi_observation, wifi_known>>
ChargeDiff(t) ==
    /\ pc[t] = "charge_diff"
    /\ \/ /\ HasElapsedSecond(clock[t] - last_update)
          /\ last_update' = clock[t]
          /\ Goto(t, "charge_reads")
       \/ /\ ~HasElapsedSecond(clock[t] - last_update)
          /\ Goto(t, "poll_done")
          /\ UNCHANGED last_update
    /\ LeaveScope(t)
    /\ UNCHANGED <<now, owner, running, last_reset, last_mobile_sample_time,
                   last_wifi_observation, wifi_known>>

\* wifi_packet_rate(), wifi_uplink_data_rate() and get_mobile_state().
ChargeReads(t) ==
    /\ pc[t] = "charge_reads"
    /\ {owner["wifi_state_lock"], owner["mobile_state_lock"]} = {NoThread}
    /\ Goto(t, "charge_lock")
    /\ UNCHANGED <<now, owner, clock, running, stamps>>

ChargeLock(t) ==
    /\ pc[t] = "charge_lock"
    /\ Acquire(t, "stats_lock")
    /\ Goto(t, "charge_add")
    /\ UNCHANGED <<now, clock, running, stamps>>

ChargeAdd(t) ==
    /\ pc[t] = "charge_add"
    /\ Release("stats_lock")
    /\ Goto(t, "poll_done")
    /\ UNCHANGED <<now, clock, running, stamps>>

\* update_energy_stats returns: to pthread_cond_timedwait, which lets go of
\* update_thread_lock while it waits, or to reset_stats.
PollDone(t) ==
    /\ pc[t] = "poll_done"
    /\ \/ t = Updater /\ Release("update_thread_lock") /\ Goto(t, "waiting")
       \/ t = App /\ Goto(t, "reset_unlock") /\ UNCHANGED owner
    /\ UNCHANGED <<now, clock, running, stamps>>

update_energy_stats(t) ==
    \/ WifiClock(t) \/ WifiLock(t) \/ WifiDiff(t) \/ WifiRates(t) \/ WifiStore(t)
    \/ MobileLock(t) \/ MobileClock(t) \/ MobileDiff(t) \/ Report(t)
    \/ ChargeClock(t) \/ ChargeDiff(t) \/ ChargeReads(t) \/ ChargeLock(t)
    \/ ChargeAdd(t) \/ PollDone(t)
-----------------------------------------------------------------------------
(* reset_stats: stats_lock is the only lock it takes.                      *)

ResetLock(t) ==
    /\ pc[t] = "reset_lock"
    /\ Acquire(t, "stats_lock")
    /\ Goto(t, "reset_totals")
    /\ UNCHANGED <<now, clock, running, stamps>>

\* last_update = last_reset, and the totals.
ResetTotals(t) ==
    /\ pc[t] = "reset_totals"
    /\ last_reset' = now
    /\ last_update' = now
    /\ Goto(t, "reset_mobile")
    /\ UNCHANGED <<now, owner, clock, running, last_mobile_sample_time,
                   last_wifi_observation, wifi_known>>

\* The mobile_* statics: the stamps are zeroed for the time being.
ResetMobile(t) ==
    /\ pc[t] = "reset_mobile"
    /\ last_mobile_sample_time' = 0
    /\ Goto(t, "reset_rates")
    /\ UNCHANGED <<now, owner, clock, running, last_reset, last_update,
                   last_wifi_observation, wifi_known>>

\* The wifi_* arrays, one after the other.
ResetWifi(t) ==
    /\ \/ /\ pc[t] = "reset_rates"
          /\ wifi_known' = wifi_known \ {"rates"}
          /\ Goto(t, "reset_bytes")
       \/ /\ pc[t] = "reset_bytes"
          /\ wifi_known' = wifi_known \ {"bytes"}
          /\ Goto(t, "reset_packets")
       \/ /\ pc[t] = "reset_packets"
          /\ wifi_known' = wifi_known \ {"packets"}
          /\ Goto(t, "reset_observation")
    /\ UNCHANGED <<now, owner, clock, running, last_reset, last_update,
                   last_mobile_sample_time, last_wifi_observation>>

ResetObservation(t) ==
    /\ pc[t] = "reset_observation"
    /\ last_wifi_observation' = now
    /\ Goto(t, "reset_stamps")
    /\ UNCHANGED <<now, owner, clock, running, last_reset, last_update,
                   last_mobile_sample_time, wifi_known>>

\* The mobile_* stamps get their values, and a poll begins.
ResetStampsBackdated(t) ==
    /\ pc[t] = "reset_stamps"
    /\ last_mobile_sample_time' = now - 2 * SECOND
    /\ Goto(t, "wifi_clock")
    /\ UNCHANGED <<now, owner, clock, running, last_reset, last_update,
                   last_wifi_observation, wifi_known>>
ResetStamps(t) ==
    /\ pc[t] = "reset_stamps"
    /\ last_mobile_sample_time' = now
    /\ Goto(t, "wifi_clock")
    /\ UNCHANGED <<now, owner, clock, running, last_reset, last_update,
                   last_wifi_observation, wifi_known>>

\* Back in the application, or in the constructor, which creates the thread.
ResetUnlock(t) ==
    /\ pc[t] = "reset_unlock"
    /\ Release("stats_lock")
    /\ pc' = [pc EXCEPT ![t] = "idle",
                        ![Updater] = IF @ = "unborn" THEN "start" ELSE @]
    /\ UNCHANGED <<now, clock, running, stamps>>

reset_stats(t) ==
    \/ ResetLock(t) \/ ResetTotals(t) \/ ResetMobile(t) \/ ResetWifi(t)
    \/ ResetObservation(t) \/ ResetStamps(t) \/ ResetUnlock(t)
-----------------------------------------------------------------------------
(* The queries that subtract a stamp from the clock.                       *)

\* The application asks for the queues; time_since_last_mobile_activity and
\* time_fraction_in_state go through the same steps.
QueueQuery(t) ==
    get_mobile_queue_len(t, "queue_lock", "queue_clock", "queue_diff", "idle")

\* average_power_consumption_since_reset_by_component
PowerQuery(t) ==
    \/ /\ pc[t] = "power_lock"
       /\ Acquire(t, "stats_lock")
       /\ Goto(t, "power_clock")
       /\ UNCHANGED <<now, clock, running, stamps>>
    \/ /\ pc[t] = "power_clock"
       /\ ReadClock(t)
       /\ Goto(t, "power_diff")
       /\ UNCHANGED <<now, owner, running, stamps>>
    \/ /\ pc[t] = "power_diff"      \* TIMEDIFF(begin, now, diff)
       /\ Release("stats_lock")
       /\ LeaveScope(t)
       /\ Goto(t, "idle")
       /\ UNCHANGED <<now, running, stamps>>
-----------------------------------------------------------------------------
(* The life of the update thread.                                          *)

\* NetworkStatsUpdateThread begins, or pthread_cond_timedwait returns: at its
\* deadline, at a signal, or spuriously.
WakeToPoll(t) ==
    /\ pc[t] \in {"start", "waiting"}
    /\ Acquire(t, "update_thread_lock")
    /\ Goto(t, IF pc[t] = "start" THEN "loop" ELSE "wifi_clock")
    /\ UNCHANGED <<now, clock, running, stamps>>
Wake(t) ==
    /\ pc[t] \in {"start", "waiting"}
    /\ Acquire(t, "update_thread_lock")
    /\ Goto(t, "loop")
    /\ UNCHANGED <<now, clock, running, stamps>>

\* while (running)
Loop(t) ==
    /\ pc[t] = "loop"
    /\ \/ running /\ Goto(t, "wifi_clock") /\ UNCHANGED owner
       \/ ~running /\ Goto(t, "ended") /\ Release("update_thread_lock")
    /\ UNCHANGED <<now, clock, running, stamps>>

\* libpowertutor_fin
FinLock(t) ==
    /\ pc[t] = "fin_lock"
    /\ Acquire(t, "update_thread_lock")
    /\ Goto(t, "fin_signal")
    /\ UNCHANGED <<now, clock, running, stamps>>

FinSignalOnly(t) ==
    /\ pc[t] = "fin_signal"
    /\ Release("update_thread_lock")
    /\ Goto(t, "ended")
    /\ UNCHANGED <<now, clock, running, stamps>>
FinSignal(t) ==
    /\ pc[t] = "fin_signal"
    /\ running' = FALSE
    /\ Release("update_thread_lock")
    /\ Goto(t, "ended")
    /\ UNCHANGED <<now, clock, stamps>>
-----------------------------------------------------------------------------
\* The application calls: a query, a reset, or the end of the process.
Call ==
    /\ pc[App] = "idle"
    /\ \/ Goto(App, "queue_lock")
       \/ Goto(App, "power_lock")
       \/ CONCURRENT_RESETS /\ Goto(App, "reset_lock")
       \/ Goto(App, "fin_lock")
    /\ UNCHANGED <<now, owner, clock, running, stamps>>

\* The clock advances between any two steps, but a reset takes no longer than it may.
Resetting ==
    /\ owner["stats_lock"] = App
    /\ pc[App] \in PollSteps \cup (ResetSteps \ {"reset_totals"})
Tick ==
    /\ now < MaxTime
    /\ Resetting => now < last_reset + MaxResetTime
    /\ now' = now + 1
    /\ UNCHANGED <<owner, pc, clock, running, stamps>>

Ended ==
    /\ \A t \in Thread : pc[t] = "ended"
    /\ UNCHANGED threadsvars

\* A step of a thread that has something to do.
Step(t) ==
    \/ update_energy_stats(t)
    \/ reset_stats(t)
    \/ QueueQuery(t) \/ PowerQuery(t)
    \/ Wake(t) \/ Loop(t)
    \/ FinLock(t) \/ FinSignal(t)

ThreadsNext == Tick \/ Call \/ Ended \/ \E t \in Thread : Step(t)

ThreadsSpec == ThreadsInit /\ [][ThreadsNext]_threadsvars

\* A thread is scheduled, and gets a mutex that is free again and again: each
\* holder lets go of it after a bounded piece of work, and the update thread then
\* waits for 100 ms.  Nothing makes the application call, or the clock advance.
FairThreadsSpec == ThreadsSpec /\ \A t \in Thread : SF_threadsvars(Step(t))
-----------------------------------------------------------------------------
(* Properties.                                                             *)

ThreadsTypeOK ==
    /\ now \in Nat
    /\ owner \in [Lock -> Thread \cup {NoThread}]
    /\ pc \in [Thread -> PollSteps \cup ResetSteps \cup QuerySteps \cup LifeSteps]
    /\ clock \in [Thread -> Nat]
    /\ running \in BOOLEAN
    /\ {last_reset, last_update, last_mobile_sample_time, last_wifi_observation}
          \subseteq Nat
    /\ wifi_known \subseteq WifiArray

\* No thread runs into an assertion that would abort the process.  TIMEDIFF: "tve
\* should be >= tvb", wherever a reading of the clock is compared with a stamp that
\* another thread may have set since; and the assertion of the first observation.
AssertionsHold ==
    \A t \in Thread :
        /\ pc[t] = "wifi_diff" => last_wifi_observation <= clock[t]
        /\ pc[t] \in {"mobile_diff", "report_diff", "queue_diff"} =>
              last_mobile_sample_time <= clock[t]
        /\ pc[t] = "charge_diff" => last_update <= clock[t]
        /\ pc[t] = "power_diff" => last_reset <= clock[t]
        /\ pc[t] = "wifi_rates" => IF "bytes" \in wifi_known
                                   THEN last_wifi_observation <= clock[t]
                                   ELSE wifi_known = {}

WaitsForItself(t) ==
    \/ /\ pc[t] \in {"charge_lock", "reset_lock", "power_lock"}
       /\ owner["stats_lock"] = t
    \/ /\ pc[t] \in {"mobile_lock", "report_lock", "queue_lock"}
       /\ owner["mobile_state_lock"] = t
    \/ pc[t] = "wifi_lock" /\ owner["wifi_state_lock"] = t
    \/ pc[t] = "charge_reads" /\ t \in {owner["mobile_state_lock"], owner["wifi_state_lock"]}
    \/ pc[t] \in {"start", "waiting", "fin_lock"} /\ owner["update_thread_lock"] = t

\* No thread waits for a mutex it holds itself, if a reset takes less than a second.
\* reset_stats polls while it holds stats_lock, and the poll takes stats_lock when it
\* has a second to charge; nothing in the code bounds the time until then, and a reset
\* that takes longer is stuck for good.
NoThreadWaitsForItself == \A t \in Thread : ~WaitsForItself(t)

\* Once libpowertutor_fin has returned the update thread is in no poll and begins
\* none: it does not read the power models that the destructors after it delete.
NoPollAfterFin ==
    pc[App] = "ended" => pc[Updater] \notin PollSteps

\* The update thread polls again and again until the process ends, whatever the
\* application calls and whichever reads of the counters fail.
PollsGoOn ==
    []<>(pc[Updater] = "wifi_clock" \/ ~running)

\* Every call of the application returns, the constructor and the destructor too,
\* although they wait for locks the update thread takes again and again.
CallsReturn ==
    pc[App] \notin {"idle", "ended"} ~> pc[App] \in {"idle", "ended"}

\* libpowertutor_fin signals and does not join; still the thread ends.
FinStopsThread ==
    pc[App] = "ended" ~> pc[Updater] = "ended"
=============================================================================
