--------------------------- MODULE MobileEstimate ---------------------------
(***************************************************************************)
(* The estimate of what a transfer over the cellular radio will cost       *)
(* (libpowertutor.cpp): get_energy_computer binds the state of the radio,  *)
(* and the functor it returns, estimate_mobile_energy_cost_from_state, may *)
(* be asked about any number of transfers.                                 *)
(*                                                                         *)
(* The code computes in doubles; here the time a transfer takes is the     *)
(* rational datalen/bandwidth, and every energy is multiplied by the       *)
(* bandwidth to keep it an integer until the conversion to int mJ.         *)
(***************************************************************************)
EXTENDS PowerModel

CONSTANTS
    MOBILE_FACH_POWER, MOBILE_DCH_POWER,    \* mW
    HDR_SIZE,           \* bytes of TCP and IP headers
    SIZE_MAX,           \* largest size_t
    ON_HANDSET,         \* power_model_is_remote() is false
    Queues,             \* environment: the queue lengths the radio may have
    IdleDurations,      \* environment: ticks since the radio's last activity
    Datalens, Bandwidths, Rtts  \* environment: what an application asks about

ASSUME EstimateAssumption ==
    /\ MOBILE_FACH_POWER \in Nat
    /\ MOBILE_DCH_POWER \in Nat
    /\ HDR_SIZE \in Nat
    /\ SIZE_MAX \in Nat
    /\ ON_HANDSET \in BOOLEAN
    /\ Queues \subseteq Int
    /\ IdleDurations \subseteq Nat
    /\ Datalens \subseteq Nat
    /\ Bandwidths \subseteq Nat \ {0}
    /\ Rtts \subseteq Nat

VARIABLES
    computer,       \* what the functor has bound
    answer          \* the last transfer it was asked about, and its estimate

estimatevars == <<computer, answer>>

Snapshots == [old_state : MobileState, idle_duration : IdleDurations,
              queue_len : Queues, ack_dir_queue_len : Queues]
Sends == [datalen : Datalens, bandwidth : Bandwidths, rtt : Rtts]
NotAsked  == [energy |-> -1]
-----------------------------------------------------------------------------
\* The direction the data goes in, seen from the handset, and that of its acks.
DataDirection == IF ON_HANDSET THEN "UP" ELSE "DOWN"
AckDirection  == IF ON_HANDSET THEN "DOWN" ELSE "UP"

Bytes(t) == t.datalen + HDR_SIZE

\* queue_len + datalen, an addition of size_t.
PredictedQueue(c, t) == (c.queue_len + Bytes(t)) % (SIZE_MAX + 1)

\* The state the transfer is expected to leave the radio in.
NewState(c, t) ==
    IF \/ c.old_state = "DCH"
       \/ PredictedQueue(c, t) >= get_dch_threshold(DataDirection)
       \/ c.ack_dir_queue_len + HDR_SIZE >= get_dch_threshold(AckDirection)
    THEN "DCH" ELSE "FACH"

\* The part of the tail the transfer postpones: it has been waited for in vain.
PostponedUncapped(c) == c.idle_duration
Postponed(c) ==
    IF c.idle_duration <= InactivityTimer(c.old_state)
    THEN c.idle_duration
    ELSE InactivityTimer(c.old_state)

\* power * (duration + tail), in mW * ticks * bytes per tick.
Energy(power, t, tail) == power * (Bytes(t) + t.bandwidth * (t.rtt + tail))

\* power * tail, in the same unit.
TailEnergy(power, t, tail) == power * (t.bandwidth * tail)

FachEnergy(c, t) ==
    CASE c.old_state = "IDLE" /\ NewState(c, t) = "DCH" ->
            TailEnergy(MOBILE_FACH_POWER, t, MOBILE_FACH_INACTIVITY_TIMER)
      [] c.old_state = "IDLE" /\ NewState(c, t) = "FACH" ->
            Energy(MOBILE_FACH_POWER, t, MOBILE_FACH_INACTIVITY_TIMER)
      [] c.old_state = "FACH" /\ NewState(c, t) = "DCH" ->
            TailEnergy(MOBILE_FACH_POWER, t, Postponed(c))
      [] c.old_state = "FACH" /\ NewState(c, t) = "FACH" ->
            Energy(MOBILE_FACH_POWER, t, Postponed(c))
      [] c.old_state = "DCH" -> 0

DchEnergy(c, t) ==
    CASE c.old_state = "DCH" -> Energy(MOBILE_DCH_POWER, t, Postponed(c))
      [] c.old_state # "DCH" /\ NewState(c, t) = "DCH" ->
            Energy(MOBILE_DCH_POWER, t, MOBILE_DCH_INACTIVITY_TIMER)
      [] NewState(c, t) = "FACH" -> 0

\* The conversion to int, and with it to mJ.
InMilliJoule(energy, t) == energy \div (t.bandwidth * SECOND)

estimate_mobile_energy_cost_from_state(c, t) ==
    InMilliJoule(FachEnergy(c, t), t) + InMilliJoule(DchEnergy(c, t), t)
-----------------------------------------------------------------------------
EstimateInit ==
    /\ computer \in Snapshots
    /\ answer = NotAsked

\* get_energy_computer(TYPE_MOBILE)
GetEnergyComputer ==
    /\ computer' \in Snapshots
    /\ answer' = NotAsked

\* The functor is called.
EstimateCost ==
    /\ \E t \in Sends :
          answer' = [transfer |-> t,
                     energy   |-> estimate_mobile_energy_cost_from_state(computer, t)]
    /\ UNCHANGED computer

EstimateNext == GetEnergyComputer \/ EstimateCost

EstimateSpec == EstimateInit /\ [][EstimateNext]_estimatevars
-----------------------------------------------------------------------------
(* Properties.                                                             *)

\* What is still to be spent on a radio that is left alone in a state, until it
\* is idle (in mW * ticks): the rest of its stay, and the states below it.
RemainingTail(state, postponed) ==
    CASE state = "IDLE" -> 0
      [] state = "FACH" ->
            MOBILE_FACH_POWER * (MOBILE_FACH_INACTIVITY_TIMER - postponed)
      [] state = "DCH"  ->
            MOBILE_DCH_POWER * (MOBILE_DCH_INACTIVITY_TIMER - postponed)
            + MOBILE_FACH_POWER * MOBILE_FACH_INACTIVITY_TIMER

PowerIn(state) == IF state = "DCH" THEN MOBILE_DCH_POWER ELSE MOBILE_FACH_POWER

\* The energy of the transfer and the full tail after it, less the rest of the tail
\* that would have been spent without it.
MarginalEnergy(c, t) ==
    LET wasted == IF c.idle_duration <= InactivityTimer(c.old_state)
                  THEN c.idle_duration ELSE InactivityTimer(c.old_state)
    IN  PowerIn(NewState(c, t)) * (Bytes(t) + t.bandwidth * t.rtt)
        + t.bandwidth * (RemainingTail(NewState(c, t), 0)
                         - RemainingTail(c.old_state, wasted))

\* The comment after the case analysis: it comes to calculating "as if old_state was
\* IDLE, then subtracting" what earlier transfers have paid for.  The estimate is
\* that marginal energy, to within the mJ each of its two parts is rounded down by.
EstimatesMarginalEnergy ==
    answer # NotAsked =>
        LET t    == answer.transfer
            unit == t.bandwidth * SECOND
        IN  /\ answer.energy * unit <= MarginalEnergy(computer, t)
            /\ MarginalEnergy(computer, t) < (answer.energy + 2) * unit
=============================================================================
