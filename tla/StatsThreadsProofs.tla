------------------------- MODULE StatsThreadsProofs -------------------------
(***************************************************************************)
(* Theorems about StatsThreads, for every clock, bound on a reset, load    *)
(* time and timer that the assumptions admit: the discipline of the four   *)
(* mutexes, and what the library's two threads may rely on because of it.  *)
(***************************************************************************)
EXTENDS StatsThreads, TLAPS

\* The steps each thread ever comes to.
UpdaterSteps == PollSteps \cup {"unborn", "start", "loop", "waiting", "ended"}
AppSteps     == PollSteps \cup ResetSteps \cup QuerySteps
                          \cup {"idle", "fin_lock", "fin_signal", "ended"}

\* The critical sections: at which steps a thread has which mutex.
InStats(t) ==
    \/ pc[t] \in {"charge_add", "power_clock", "power_diff"}
    \/ t = App /\ pc[t] \in PollSteps \cup (ResetSteps \ {"reset_lock"})
InMobileState(t) ==
    pc[t] \in {"mobile_clock", "mobile_diff", "report_clock", "report_diff",
               "queue_clock", "queue_diff"}
InWifiState(t) == pc[t] \in {"wifi_diff", "wifi_rates", "wifi_store"}
InUpdateThread(t) ==
    \/ pc[t] = "fin_signal"
    \/ t = Updater /\ pc[t] \in PollSteps \cup {"loop"}

Mutexes ==
    \A t \in Thread :
        /\ owner["stats_lock"] = t <=> InStats(t)
        /\ owner["mobile_state_lock"] = t <=> InMobileState(t)
        /\ owner["wifi_state_lock"] = t <=> InWifiState(t)
        /\ owner["update_thread_lock"] = t <=> InUpdateThread(t)

\* A reset that is under way began no longer ago than a reset takes; the poll it makes
\* has something to charge only a second after its own stamp, for the charges of the
\* update thread only make the last update later; and then it gets no further.
ResetTimed ==
    /\ \A t \in Thread : clock[t] <= now
    /\ last_reset <= last_update
    /\ pc[App] \in PollSteps \cup (ResetSteps \ {"reset_lock", "reset_totals"}) =>
          now <= last_reset + MaxResetTime
    /\ pc[App] \in {"charge_reads", "charge_lock"} => now >= last_reset + SECOND
    /\ pc[App] # "charge_add"

\* Unloading the library stops the loop before it lets the update thread go on.
StoppedAtEnd ==
    pc[App] = "ended" => ~running /\ pc[Updater] \notin PollSteps

LockInv ==
    /\ ThreadsTypeOK
    /\ pc[Updater] \in UpdaterSteps /\ pc[App] \in AppSteps
    /\ Mutexes
    /\ ResetTimed
    /\ StoppedAtEnd

\* If the application never resets while the update thread runs, there is one
\* poller at a time, no stamp is later than the reading of the clock it will be
\* compared with, and the wifi arrays are filled and emptied together.
AloneInReset ==
    pc[App] \in ResetSteps \cup PollSteps => pc[Updater] = "unborn"
StampsInOrder ==
    /\ {last_reset, last_update, last_mobile_sample_time, last_wifi_observation}
          \subseteq 0..now
    /\ \A t \in Thread :
          /\ pc[t] \in {"wifi_lock", "wifi_diff", "wifi_rates", "wifi_store"} =>
                last_wifi_observation <= clock[t]
          /\ pc[t] \in {"mobile_diff", "report_diff", "queue_diff"} =>
                last_mobile_sample_time <= clock[t]
          /\ pc[t] = "charge_diff" => last_update <= clock[t]
          /\ pc[t] = "power_diff" => last_reset <= clock[t]
WifiKnownTogether ==
    /\ "bytes" \in wifi_known \/ wifi_known = {}
    /\ pc[App] \in ResetSteps \ {"reset_unlock"} => wifi_known = {}

ClockInv == LockInv /\ AloneInReset /\ StampsInOrder /\ WifiKnownTogether
-----------------------------------------------------------------------------
(* The mutexes.                                                            *)

\* The constants the proofs compute with.
LEMMA ConstantTypes ==
    /\ Updater # App /\ NoThread # Updater /\ NoThread # App
    /\ Thread = {Updater, App}
    /\ SECOND \in Nat /\ SECOND > 0
    /\ MaxResetTime \in Nat
    /\ StartTime \in Nat
  BY SecondAssumption, ThreadsAssumption DEF Thread

\* The library is loaded with all mutexes free.
LEMMA LockInvInit == ThreadsInit => LockInv
<1> SUFFICES ASSUME ThreadsInit PROVE LockInv
  OBVIOUS
<1> USE ConstantTypes
<1>1. ThreadsTypeOK
  BY DEF ThreadsInit, ThreadsTypeOK, Lock, ResetSteps, LifeSteps, WifiArray
<1>2. pc[Updater] = "unborn" /\ pc[App] = "reset_lock"
  BY DEF ThreadsInit
<1>3. pc[Updater] \in UpdaterSteps /\ pc[App] \in AppSteps
  BY <1>2 DEF UpdaterSteps, AppSteps, ResetSteps
<1>4. Mutexes
  BY <1>2 DEF ThreadsInit, Mutexes, InStats, InMobileState, InWifiState,
     InUpdateThread, PollSteps, ResetSteps, Lock
<1>5. ResetTimed /\ StoppedAtEnd
  BY <1>2 DEF ThreadsInit, ResetTimed, StoppedAtEnd, PollSteps, ResetSteps
<1> QED
  BY <1>1, <1>3, <1>4, <1>5 DEF LockInv

\* In what follows a step of a thread is computed with: where it goes, the one
\* mutex it takes or lets go of, its reading of the clock.
USE ConstantTypes
    DEF UpdaterSteps, AppSteps, PollSteps, ResetSteps, QuerySteps, LifeSteps, Lock,
        Goto, Acquire, Release, ReadClock, LeaveScope, stamps

\* The wifi tracker's part of a poll keeps the discipline of the mutexes.
LEMMA LockInvWifi ==
    ASSUME NEW t \in Thread, LockInv, 
           WifiClock(t) \/ WifiLock(t) \/ WifiDiff(t) \/ WifiRates(t) \/ WifiStore(t)
    PROVE  LockInv'
<1> USE DEF LockInv, ThreadsTypeOK, Mutexes, ResetTimed, StoppedAtEnd,
            InStats, InMobileState, InWifiState, InUpdateThread
<1>1. CASE WifiClock(t)
  BY <1>1 DEF WifiClock
<1>2. CASE WifiLock(t)
  BY <1>2 DEF WifiLock
<1>3. CASE WifiDiff(t)
  BY <1>3 DEF WifiDiff, HasElapsedSecond
<1>4. CASE WifiRates(t)
  BY <1>4 DEF WifiRates, WifiArray
<1>5. CASE WifiStore(t)
  BY <1>5 DEF WifiStore, WifiArray
<1> QED
  BY <1>1, <1>2, <1>3, <1>4, <1>5

\* So does the mobile tracker's.
LEMMA LockInvMobile ==
    ASSUME NEW t \in Thread, LockInv, 
           MobileLock(t) \/ MobileClock(t) \/ MobileDiff(t)
    PROVE  LockInv'
<1> USE DEF LockInv, ThreadsTypeOK, Mutexes, ResetTimed, StoppedAtEnd,
            InStats, InMobileState, InWifiState, InUpdateThread
<1>1. CASE MobileLock(t)
  BY <1>1 DEF MobileLock
<1>2. CASE MobileClock(t)
  BY <1>2 DEF MobileClock
<1>3. CASE MobileDiff(t)
  BY <1>3 DEF MobileDiff
<1> QED
  BY <1>1, <1>2, <1>3

\* So does get_mobile_queue_len, for the activity callback or for the application.
LEMMA LockInvQueueLen ==
    ASSUME NEW t \in Thread, LockInv, Report(t) \/ QueueQuery(t)
    PROVE  LockInv'
<1> USE DEF LockInv, ThreadsTypeOK, Mutexes, ResetTimed, StoppedAtEnd,
            InStats, InMobileState, InWifiState, InUpdateThread
<1>1. CASE Report(t)
  <2>1. CASE pc[t] = "report_lock"
    BY <1>1, <2>1 DEF Report, get_mobile_queue_len
  <2>2. CASE pc[t] = "report_clock"
    BY <1>1, <2>2 DEF Report, get_mobile_queue_len
  <2>3. CASE pc[t] = "report_diff"
    BY <1>1, <2>3 DEF Report, get_mobile_queue_len
  <2> QED
    BY <1>1, <2>1, <2>2, <2>3 DEF Report, get_mobile_queue_len
<1>2. CASE QueueQuery(t)
  <2>1. CASE pc[t] = "queue_lock"
    BY <1>2, <2>1 DEF QueueQuery, get_mobile_queue_len
  <2>2. CASE pc[t] = "queue_clock"
    BY <1>2, <2>2 DEF QueueQuery, get_mobile_queue_len
  <2>3. CASE pc[t] = "queue_diff"
    BY <1>2, <2>3 DEF QueueQuery, get_mobile_queue_len
  <2> QED
    BY <1>2, <2>1, <2>2, <2>3 DEF QueueQuery, get_mobile_queue_len
<1> QED
  BY <1>1, <1>2

\* So does a charge: the poll of a reset comes to one only a second after the reset
\* began, and never gets stats_lock, which it has.
LEMMA LockInvCharge ==
    ASSUME NEW t \in Thread, LockInv, 
           \/ ChargeClock(t) \/ ChargeDiff(t) \/ ChargeReads(t) \/ ChargeLock(t)
           \/ ChargeAdd(t) \/ PollDone(t)
    PROVE  LockInv'
<1> USE DEF LockInv, ThreadsTypeOK, Mutexes, ResetTimed, StoppedAtEnd,
            InStats, InMobileState, InWifiState, InUpdateThread
<1>1. CASE ChargeClock(t)
  BY <1>1 DEF ChargeClock
<1>2. CASE ChargeDiff(t)
  BY <1>2 DEF ChargeDiff, HasElapsedSecond
<1>3. CASE ChargeReads(t)
  BY <1>3 DEF ChargeReads
<1>4. CASE ChargeLock(t)
  BY <1>4 DEF ChargeLock
<1>5. CASE ChargeAdd(t)
  BY <1>5 DEF ChargeAdd
<1>6. CASE PollDone(t)
  BY <1>6 DEF PollDone
<1> QED
  BY <1>1, <1>2, <1>3, <1>4, <1>5, <1>6

\* So does reset_stats, up to its poll and after it.
LEMMA LockInvReset ==
    ASSUME NEW t \in Thread, LockInv, reset_stats(t)
    PROVE  LockInv'
<1> USE DEF LockInv, ThreadsTypeOK, Mutexes, ResetTimed, StoppedAtEnd,
            InStats, InMobileState, InWifiState, InUpdateThread
<1>1. CASE ResetLock(t)
  BY <1>1 DEF ResetLock
<1>2. CASE ResetTotals(t)
  BY <1>2 DEF ResetTotals
<1>3. CASE ResetMobile(t)
  BY <1>3 DEF ResetMobile
<1>4. CASE ResetWifi(t)
  <2>1. CASE pc[t] = "reset_rates"
    BY <1>4, <2>1 DEF ResetWifi
  <2>2. CASE pc[t] = "reset_bytes"
    BY <1>4, <2>2 DEF ResetWifi
  <2>3. CASE pc[t] = "reset_packets"
    BY <1>4, <2>3 DEF ResetWifi
  <2> QED
    BY <1>4, <2>1, <2>2, <2>3 DEF ResetWifi
<1>5. CASE ResetObservation(t)
  BY <1>5 DEF ResetObservation
<1>6. CASE ResetStamps(t)
  BY <1>6 DEF ResetStamps
<1>7. CASE ResetUnlock(t)
  BY <1>7 DEF ResetUnlock
<1> QED
  BY <1>1, <1>2, <1>3, <1>4, <1>5, <1>6, <1>7 DEF reset_stats

\* So do the query of the power, and the beginning and end of the update thread.
LEMMA LockInvLife ==
    ASSUME NEW t \in Thread, LockInv, 
           PowerQuery(t) \/ Wake(t) \/ Loop(t) \/ FinLock(t) \/ FinSignal(t)
    PROVE  LockInv'
<1> USE DEF LockInv, ThreadsTypeOK, Mutexes, ResetTimed, StoppedAtEnd,
            InStats, InMobileState, InWifiState, InUpdateThread
<1>1. CASE PowerQuery(t)
  BY <1>1 DEF PowerQuery
<1>2. CASE Wake(t)
  BY <1>2 DEF Wake
<1>3. CASE Loop(t)
  BY <1>3 DEF Loop
<1>4. CASE FinLock(t)
  BY <1>4 DEF FinLock
<1>5. CASE FinSignal(t)
  <2>1. t = App /\ pc[App] = "fin_signal" /\ pc[Updater] \notin PollSteps
    BY <1>5 DEF FinSignal
  <2>2. /\ pc'[App] = "ended" /\ pc'[Updater] = pc[Updater]
        /\ pc' \in [Thread -> PollSteps \cup ResetSteps \cup QuerySteps \cup LifeSteps]
    BY <1>5, <2>1 DEF FinSignal
  <2>3. /\ owner' \in [Lock -> Thread \cup {NoThread}]
        /\ owner'["update_thread_lock"] = NoThread
        /\ \A lock \in Lock \ {"update_thread_lock"} : owner'[lock] = owner[lock]
    BY <1>5, <2>1 DEF FinSignal
  <2>4. Mutexes'
    BY <2>1, <2>2, <2>3
  <2> QED
    BY <1>5, <2>1, <2>2, <2>3, <2>4 DEF FinSignal
<1> QED
  BY <1>1, <1>2, <1>3, <1>4, <1>5

\* The discipline of the mutexes is inductive.
LEMMA LockInvNext == LockInv /\ [ThreadsNext]_threadsvars => LockInv'
<1> SUFFICES ASSUME LockInv, [ThreadsNext]_threadsvars PROVE LockInv'
  OBVIOUS
<1>1. ASSUME NEW t \in Thread, Step(t) PROVE LockInv'
  BY <1>1, LockInvWifi, LockInvMobile, LockInvQueueLen, LockInvCharge, LockInvReset,
     LockInvLife DEF Step, update_energy_stats
<1> USE DEF LockInv, ThreadsTypeOK, Mutexes, ResetTimed, StoppedAtEnd,
            InStats, InMobileState, InWifiState, InUpdateThread
<1>2. CASE Tick
  BY <1>2 DEF Tick, Resetting
<1>3. CASE Call
  BY <1>3 DEF Call
<1>4. CASE UNCHANGED threadsvars
  BY <1>4 DEF threadsvars
<1> QED
  BY <1>1, <1>2, <1>3, <1>4 DEF ThreadsNext, Ended

LEMMA LockInvHolds == ThreadsSpec => []LockInv
  BY LockInvInit, LockInvNext, PTL DEF ThreadsSpec

\* Every value of the threads' state keeps its type, however the two threads
\* interleave and whether or not the application resets while the update thread
\* runs; in particular no stamp is ever set to a negative time.
THEOREM ThreadsTypeCorrect == ThreadsSpec => []ThreadsTypeOK
<1>1. LockInv => ThreadsTypeOK
  BY DEF LockInv
<1> QED
  BY <1>1, LockInvHolds, PTL

\* The two threads are never at a step of the same critical section at once: a
\* sample of the mobile tracker and the queries that use its stamp, a sample of
\* the wifi tracker, a charge and the query of the power, a poll of the update
\* thread and libpowertutor_fin's signal.
THEOREM MutualExclusion ==
    ThreadsSpec => [](/\ ~(InStats(Updater) /\ InStats(App))
                      /\ ~(InMobileState(Updater) /\ InMobileState(App))
                      /\ ~(InWifiState(Updater) /\ InWifiState(App))
                      /\ ~(InUpdateThread(Updater) /\ InUpdateThread(App)))
<1>1. LockInv => /\ ~(InStats(Updater) /\ InStats(App))
                 /\ ~(InMobileState(Updater) /\ InMobileState(App))
                 /\ ~(InWifiState(Updater) /\ InWifiState(App))
                 /\ ~(InUpdateThread(Updater) /\ InUpdateThread(App))
  <2> SUFFICES ASSUME LockInv
               PROVE  /\ ~(InStats(Updater) /\ InStats(App))
                      /\ ~(InMobileState(Updater) /\ InMobileState(App))
                      /\ ~(InWifiState(Updater) /\ InWifiState(App))
                      /\ ~(InUpdateThread(Updater) /\ InUpdateThread(App))
    OBVIOUS
  <2>1. \A t \in Thread :
           /\ owner["stats_lock"] = t <=> InStats(t)
           /\ owner["mobile_state_lock"] = t <=> InMobileState(t)
           /\ owner["wifi_state_lock"] = t <=> InWifiState(t)
           /\ owner["update_thread_lock"] = t <=> InUpdateThread(t)
    BY DEF LockInv, Mutexes
  <2> QED
    BY <2>1
<1> QED
  BY <1>1, LockInvHolds, PTL

\* The one way in which a thread comes to wait for a mutex it holds itself: reset_stats
\* polls with stats_lock held, and the poll, which began a second or more after the
\* reset stamped last_update, has a charge to make and takes stats_lock again.
THEOREM OnlySlowResetDeadlocks ==
    ThreadsSpec => [](\A t \in Thread : WaitsForItself(t) =>
                         t = App /\ pc[t] = "charge_lock" /\ now >= last_reset + SECOND)
<1> DEFINE SlowReset ==
       \A t \in Thread : WaitsForItself(t) =>
          t = App /\ pc[t] = "charge_lock" /\ now >= last_reset + SECOND
<1>1. LockInv => SlowReset
  BY DEF LockInv, Mutexes, ResetTimed, InStats, InMobileState, InWifiState,
     InUpdateThread, WaitsForItself
<1> QED
  BY <1>1, LockInvHolds, PTL

\* Provided that no reset takes a second, no thread waits for a mutex it holds itself,
\* not even if the application resets while the update thread runs.  The code does not
\* bound a reset: the proviso is the environment's.
THEOREM NoSelfDeadlock ==
    ASSUME MaxResetTime < SECOND
    PROVE  ThreadsSpec => []NoThreadWaitsForItself
<1>1. LockInv => NoThreadWaitsForItself
  BY DEF LockInv, ThreadsTypeOK, Mutexes, ResetTimed, InStats, InMobileState, InWifiState,
     InUpdateThread, WaitsForItself, NoThreadWaitsForItself
<1> QED
  BY <1>1, LockInvHolds, PTL

\* When libpowertutor_fin has returned, the update thread is in no poll and will
\* begin none.
THEOREM QuietAfterFin == ThreadsSpec => []NoPollAfterFin
<1>1. LockInv => NoPollAfterFin
  BY DEF LockInv, StoppedAtEnd, NoPollAfterFin
<1> QED
  BY <1>1, LockInvHolds, PTL
-----------------------------------------------------------------------------
(* The clock and the assertions, if the application does not reset while the *)
(* update thread runs.                                                       *)

\* At first no stamp is set and no counter known.
LEMMA ClockInvInit == ThreadsInit => ClockInv
<1> SUFFICES ASSUME ThreadsInit PROVE ClockInv
  OBVIOUS
<1>1. pc[Updater] = "unborn" /\ pc[App] = "reset_lock" /\ wifi_known = {}
  BY DEF ThreadsInit
<1> QED
  BY <1>1, LockInvInit DEF ThreadsInit, ClockInv, AloneInReset, StampsInOrder, WifiKnownTogether

\* The one poller stamps the wifi tracker with a clock read since the last stamp.
LEMMA ClockInvWifi ==
    ASSUME NEW t \in Thread, ClockInv, 
           WifiClock(t) \/ WifiLock(t) \/ WifiDiff(t) \/ WifiRates(t) \/ WifiStore(t)
    PROVE  AloneInReset' /\ StampsInOrder' /\ WifiKnownTogether'
<1> USE DEF ClockInv, LockInv, ThreadsTypeOK, Mutexes, ResetTimed, InStats,
            InMobileState, InWifiState, AloneInReset, StampsInOrder, WifiKnownTogether
<1>1. CASE WifiClock(t)
  BY <1>1 DEF WifiClock
<1>2. CASE WifiLock(t)
  BY <1>2 DEF WifiLock
<1>3. CASE WifiDiff(t)
  BY <1>3 DEF WifiDiff, HasElapsedSecond
<1>4. CASE WifiRates(t)
  BY <1>4 DEF WifiRates, WifiArray
<1>5. CASE WifiStore(t)
  BY <1>5 DEF WifiStore, WifiArray
<1> QED
  BY <1>1, <1>2, <1>3, <1>4, <1>5

\* A sample of the mobile tracker is stamped with the clock, under its mutex.
LEMMA ClockInvMobile ==
    ASSUME NEW t \in Thread, ClockInv, 
           MobileLock(t) \/ MobileClock(t) \/ MobileDiff(t)
    PROVE  AloneInReset' /\ StampsInOrder' /\ WifiKnownTogether'
<1> USE DEF ClockInv, LockInv, ThreadsTypeOK, Mutexes, ResetTimed, InStats,
            InMobileState, InWifiState, AloneInReset, StampsInOrder, WifiKnownTogether
<1>1. CASE MobileLock(t)
  BY <1>1 DEF MobileLock
<1>2. CASE MobileClock(t)
  BY <1>2 DEF MobileClock
<1>3. CASE MobileDiff(t)
  BY <1>3 DEF MobileDiff
<1> QED
  BY <1>1, <1>2, <1>3

\* get_mobile_queue_len reads the clock under the mutex of the stamp it subtracts.
LEMMA ClockInvQueueLen ==
    ASSUME NEW t \in Thread, ClockInv, Report(t) \/ QueueQuery(t)
    PROVE  AloneInReset' /\ StampsInOrder' /\ WifiKnownTogether'
<1> USE DEF ClockInv, LockInv, ThreadsTypeOK, Mutexes, ResetTimed, InStats,
            InMobileState, InWifiState, AloneInReset, StampsInOrder, WifiKnownTogether
<1>1. CASE Report(t)
  <2>1. CASE pc[t] = "report_lock"
    BY <1>1, <2>1 DEF Report, get_mobile_queue_len
  <2>2. CASE pc[t] = "report_clock"
    BY <1>1, <2>2 DEF Report, get_mobile_queue_len
  <2>3. CASE pc[t] = "report_diff"
    BY <1>1, <2>3 DEF Report, get_mobile_queue_len
  <2> QED
    BY <1>1, <2>1, <2>2, <2>3 DEF Report, get_mobile_queue_len
<1>2. CASE QueueQuery(t)
  <2>1. CASE pc[t] = "queue_lock"
    BY <1>2, <2>1 DEF QueueQuery, get_mobile_queue_len
  <2>2. CASE pc[t] = "queue_clock"
    BY <1>2, <2>2 DEF QueueQuery, get_mobile_queue_len
  <2>3. CASE pc[t] = "queue_diff"
    BY <1>2, <2>3 DEF QueueQuery, get_mobile_queue_len
  <2> QED
    BY <1>2, <2>1, <2>2, <2>3 DEF QueueQuery, get_mobile_queue_len
<1> QED
  BY <1>1, <1>2

\* The last update is set only by the one poller, to a clock it has read.
LEMMA ClockInvCharge ==
    ASSUME NEW t \in Thread, ClockInv, 
           \/ ChargeClock(t) \/ ChargeDiff(t) \/ ChargeReads(t) \/ ChargeLock(t)
           \/ ChargeAdd(t) \/ PollDone(t)
    PROVE  AloneInReset' /\ StampsInOrder' /\ WifiKnownTogether'
<1> USE DEF ClockInv, LockInv, ThreadsTypeOK, Mutexes, ResetTimed, InStats,
            InMobileState, InWifiState, AloneInReset, StampsInOrder, WifiKnownTogether
<1>1. CASE ChargeClock(t)
  BY <1>1 DEF ChargeClock
<1>2. CASE ChargeDiff(t)
  BY <1>2 DEF ChargeDiff, HasElapsedSecond
<1>3. CASE ChargeReads(t)
  BY <1>3 DEF ChargeReads
<1>4. CASE ChargeLock(t)
  BY <1>4 DEF ChargeLock
<1>5. CASE ChargeAdd(t)
  BY <1>5 DEF ChargeAdd
<1>6. CASE PollDone(t)
  BY <1>6 DEF PollDone
<1> QED
  BY <1>1, <1>2, <1>3, <1>4, <1>5, <1>6

\* A reset stamps with the clock, and nobody else is about.
LEMMA ClockInvReset ==
    ASSUME NEW t \in Thread, ClockInv, reset_stats(t)
    PROVE  AloneInReset' /\ StampsInOrder' /\ WifiKnownTogether'
<1> USE DEF ClockInv, LockInv, ThreadsTypeOK, Mutexes, ResetTimed, InStats,
            InMobileState, InWifiState, AloneInReset, StampsInOrder, WifiKnownTogether
<1>1. CASE ResetLock(t)
  BY <1>1 DEF ResetLock
<1>2. CASE ResetTotals(t)
  BY <1>2 DEF ResetTotals
<1>3. CASE ResetMobile(t)
  BY <1>3 DEF ResetMobile
<1>4. CASE ResetWifi(t)
  <2>1. t = App /\ wifi_known = {} /\ wifi_known' = {}
    BY <1>4 DEF ResetWifi
  <2>2. pc' = [pc EXCEPT ![App] = pc'[App]] /\ UNCHANGED <<now, clock>>
    BY <1>4, <2>1 DEF ResetWifi
  <2>3. pc'[App] \in {"reset_bytes", "reset_packets", "reset_observation"}
    BY <1>4, <2>1 DEF ResetWifi
  <2> QED
    BY <1>4, <2>1, <2>2, <2>3 DEF ResetWifi
<1>5. CASE ResetObservation(t)
  BY <1>5 DEF ResetObservation
<1>6. CASE ResetStamps(t)
  BY <1>6 DEF ResetStamps
<1>7. CASE ResetUnlock(t)
  BY <1>7 DEF ResetUnlock
<1> QED
  BY <1>1, <1>2, <1>3, <1>4, <1>5, <1>6, <1>7 DEF reset_stats

\* No reset comes between the two readings of the query of the power.
LEMMA ClockInvLife ==
    ASSUME NEW t \in Thread, ClockInv, 
           PowerQuery(t) \/ Wake(t) \/ Loop(t) \/ FinLock(t) \/ FinSignal(t)
    PROVE  AloneInReset' /\ StampsInOrder' /\ WifiKnownTogether'
<1> USE DEF ClockInv, LockInv, ThreadsTypeOK, Mutexes, ResetTimed, InStats,
            InMobileState, InWifiState, AloneInReset, StampsInOrder, WifiKnownTogether
<1>1. CASE PowerQuery(t)
  BY <1>1 DEF PowerQuery
<1>2. CASE Wake(t)
  BY <1>2 DEF Wake
<1>3. CASE Loop(t)
  BY <1>3 DEF Loop
<1>4. CASE FinLock(t)
  BY <1>4 DEF FinLock
<1>5. CASE FinSignal(t)
  BY <1>5 DEF FinSignal
<1> QED
  BY <1>1, <1>2, <1>3, <1>4, <1>5

\* The order of the stamps is inductive when a reset never runs beside the thread.
LEMMA ClockInvNext ==
    ASSUME ~CONCURRENT_RESETS
    PROVE  ClockInv /\ [ThreadsNext]_threadsvars => ClockInv'
<1> SUFFICES ASSUME ClockInv, [ThreadsNext]_threadsvars
             PROVE  AloneInReset' /\ StampsInOrder' /\ WifiKnownTogether'
  BY LockInvNext DEF ClockInv
<1>1. ASSUME NEW t \in Thread, Step(t)
      PROVE  AloneInReset' /\ StampsInOrder' /\ WifiKnownTogether'
  BY <1>1, ClockInvWifi, ClockInvMobile, ClockInvQueueLen, ClockInvCharge, ClockInvReset,
     ClockInvLife DEF Step, update_energy_stats
<1> USE DEF ClockInv, LockInv, ThreadsTypeOK, AloneInReset, StampsInOrder, WifiKnownTogether
<1>2. CASE Tick
  BY <1>2 DEF Tick
<1>3. CASE Call
  BY <1>3 DEF Call
<1>4. CASE UNCHANGED threadsvars
  BY <1>4 DEF threadsvars
<1> QED
  BY <1>1, <1>2, <1>3, <1>4 DEF ThreadsNext, Ended

\* No assertion of the library fails, wherever its two threads are interrupted, as
\* long as the application does not call reset_stats while the update thread runs:
\* no TIMEDIFF is handed its two instants in the wrong order, and the wifi arrays
\* are all unknown at the first observation.  Without the hypothesis it is false:
\* run ThreadsReset shows how.
THEOREM AssertionsNeverFail ==
    ASSUME ~CONCURRENT_RESETS
    PROVE  ThreadsSpec => []AssertionsHold
<1>1. ClockInv => AssertionsHold
  BY DEF ClockInv, StampsInOrder, WifiKnownTogether, AssertionsHold
<1> QED
  BY <1>1, ClockInvInit, ClockInvNext, PTL DEF ThreadsSpec
=============================================================================
