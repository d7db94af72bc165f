------------------------- MODULE MobileEstimateProofs -------------------------
(***************************************************************************)
(* The estimate is the marginal energy of a transfer, for every power      *)
(* model, transfer and state of the radio.                                 *)
(***************************************************************************)
EXTENDS MobileEstimate, TLAPS

(* The little algebra the estimate needs.                                  *)

LEMMA MulNat == \A a, b \in Nat : a * b \in Nat
OBVIOUS

LEMMA Distributes == \A a, b, c \in Nat : a * (b + c) = a * b + a * c
OBVIOUS

LEMMA Exchanges == \A a, b, c \in Nat : a * (b * c) = b * (a * c)
OBVIOUS

\* Conversion to an integer number of units rounds down by less than one.
LEMMA RoundsDown ==
    ASSUME NEW e \in Nat, NEW u \in Nat \ {0}
    PROVE  /\ e \div u \in Nat
           /\ (e \div u) * u <= e
           /\ e < (e \div u) * u + u
BY SMTT(30)
-----------------------------------------------------------------------------
\* Every quantity of the estimate is a natural number.
LEMMA EstimateTypes ==
    ASSUME NEW c \in Snapshots, NEW t \in Sends
    PROVE  /\ MOBILE_FACH_POWER \in Nat /\ MOBILE_DCH_POWER \in Nat
           /\ MOBILE_DCH_INACTIVITY_TIMER \in Nat
           /\ MOBILE_FACH_INACTIVITY_TIMER \in Nat
           /\ t.bandwidth \in Nat \ {0} /\ t.rtt \in Nat /\ Bytes(t) \in Nat
           /\ t.bandwidth * SECOND \in Nat \ {0}
           /\ c.old_state \in MobileState /\ c.idle_duration \in Nat
           /\ Postponed(c) \in Nat
           /\ Postponed(c) <= InactivityTimer(c.old_state)
           /\ NewState(c, t) \in {"FACH", "DCH"}
           /\ c.old_state = "DCH" => NewState(c, t) = "DCH"
<1>1. /\ t.bandwidth \in Nat \ {0} /\ t.rtt \in Nat /\ t.datalen \in Nat
      /\ c.old_state \in MobileState /\ c.idle_duration \in Nat
  BY EstimateAssumption DEF Snapshots, Sends
<1>2. Bytes(t) \in Nat
  BY <1>1, EstimateAssumption DEF Bytes
<1>3. t.bandwidth * SECOND \in Nat \ {0}
  <2>1. \A a, b \in Nat \ {0} : a * b \in Nat \ {0}
    BY SMTT(30)
  <2> QED
    BY <1>1, <2>1, SecondAssumption
<1>4. Postponed(c) \in Nat /\ Postponed(c) <= InactivityTimer(c.old_state)
  BY <1>1, TimerAssumption DEF Postponed, InactivityTimer
<1>5. /\ NewState(c, t) \in {"FACH", "DCH"}
      /\ c.old_state = "DCH" => NewState(c, t) = "DCH"
  BY DEF NewState
<1> QED
  BY <1>1, <1>2, <1>3, <1>4, <1>5, EstimateAssumption, TimerAssumption

\* The energy of sending and then waiting is that of each.
LEMMA EnergySplits ==
    ASSUME NEW t \in Sends, NEW p \in Nat, NEW tail \in Nat,
           Bytes(t) \in Nat, t.bandwidth \in Nat, t.rtt \in Nat
    PROVE  /\ Energy(p, t, tail)
                 = p * (Bytes(t) + t.bandwidth * t.rtt) + t.bandwidth * (p * tail)
           /\ TailEnergy(p, t, tail) = t.bandwidth * (p * tail)
           /\ Energy(p, t, tail) \in Nat /\ TailEnergy(p, t, tail) \in Nat
<1>1. /\ t.bandwidth * t.rtt \in Nat /\ t.bandwidth * tail \in Nat /\ p * tail \in Nat
      /\ t.bandwidth * (p * tail) \in Nat
  BY MulNat
<1>2. t.bandwidth * (t.rtt + tail) = t.bandwidth * t.rtt + t.bandwidth * tail
  BY Distributes
<1>3. Bytes(t) + t.bandwidth * (t.rtt + tail)
         = (Bytes(t) + t.bandwidth * t.rtt) + t.bandwidth * tail
  BY <1>1, <1>2
<1>4. Bytes(t) + t.bandwidth * t.rtt \in Nat
  BY <1>1
<1>5. p * ((Bytes(t) + t.bandwidth * t.rtt) + t.bandwidth * tail)
         = p * (Bytes(t) + t.bandwidth * t.rtt) + p * (t.bandwidth * tail)
  BY <1>1, <1>4, Distributes
<1>6. p * (t.bandwidth * tail) = t.bandwidth * (p * tail)
  BY Exchanges
<1>7. p * (Bytes(t) + t.bandwidth * t.rtt) \in Nat
  BY <1>4, MulNat
<1> QED
  BY <1>1, <1>3, <1>5, <1>6, <1>7 DEF Energy, TailEnergy

\* What is left of a stay of length `timer` of which `wasted` has passed.
LEMMA RemainingStay ==
    ASSUME NEW p \in Nat, NEW timer \in Nat, NEW wasted \in Nat, wasted <= timer
    PROVE  p * timer - p * (timer - wasted) = p * wasted
<1>1. timer - wasted \in Nat /\ timer = (timer - wasted) + wasted
  OBVIOUS
<1>2. p * timer = p * (timer - wasted) + p * wasted
  BY <1>1, Distributes
<1>3. p * (timer - wasted) \in Nat /\ p * wasted \in Nat
  BY <1>1, MulNat
<1> QED
  BY <1>2, <1>3

\* Before rounding, the estimate is exactly the marginal energy.
LEMMA EstimateIsMarginal ==
    ASSUME NEW c \in Snapshots, NEW t \in Sends
    PROVE  /\ FachEnergy(c, t) \in Nat
           /\ DchEnergy(c, t) \in Nat
           /\ FachEnergy(c, t) + DchEnergy(c, t) = MarginalEnergy(c, t)
<1> DEFINE b == t.bandwidth
           send == Bytes(t) + t.bandwidth * t.rtt
           F == MOBILE_FACH_POWER
           D == MOBILE_DCH_POWER
           TF == MOBILE_FACH_INACTIVITY_TIMER
           TD == MOBILE_DCH_INACTIVITY_TIMER
           w == Postponed(c)
<1>0. /\ F \in Nat /\ D \in Nat /\ TF \in Nat /\ TD \in Nat /\ w \in Nat
      /\ b \in Nat /\ t.rtt \in Nat /\ Bytes(t) \in Nat
      /\ c.old_state \in MobileState
      /\ NewState(c, t) \in {"FACH", "DCH"}
      /\ c.old_state = "DCH" => NewState(c, t) = "DCH"
      /\ w <= InactivityTimer(c.old_state)
  BY EstimateTypes
<1>1. MarginalEnergy(c, t) =
         PowerIn(NewState(c, t)) * send
         + b * (RemainingTail(NewState(c, t), 0) - RemainingTail(c.old_state, w))
  BY DEF MarginalEnergy, Postponed
<1>2. /\ TF - 0 = TF /\ TD - 0 = TD
      /\ F * TF \in Nat /\ D * TD \in Nat /\ F * w \in Nat /\ D * w \in Nat
      /\ b * (F * TF) \in Nat /\ b * (D * TD) \in Nat
      /\ b * (F * w) \in Nat /\ b * (D * w) \in Nat
  BY <1>0, MulNat
<1>3. send \in Nat /\ F * send \in Nat /\ D * send \in Nat
  BY <1>0, MulNat
<1>4. /\ RemainingTail("IDLE", w) = 0
      /\ RemainingTail("FACH", 0) = F * TF
      /\ RemainingTail("DCH", 0) = D * TD + F * TF
      /\ PowerIn("FACH") = F /\ PowerIn("DCH") = D
  BY <1>2 DEF RemainingTail, PowerIn
<1>5. \A p \in Nat, tail \in Nat :
         /\ Energy(p, t, tail) = p * send + b * (p * tail)
         /\ TailEnergy(p, t, tail) = b * (p * tail)
  BY <1>0, EnergySplits
<1>6. CASE c.old_state = "IDLE" /\ NewState(c, t) = "DCH"
  <2>1. FachEnergy(c, t) = b * (F * TF) /\ DchEnergy(c, t) = D * send + b * (D * TD)
    BY <1>0, <1>5, <1>6 DEF FachEnergy, DchEnergy
  <2>2. b * (D * TD + F * TF) = b * (D * TD) + b * (F * TF)
    BY <1>0, <1>2, Distributes
  <2>3. MarginalEnergy(c, t) = D * send + b * (D * TD + F * TF)
    BY <1>1, <1>2, <1>4, <1>6
  <2> HIDE DEF b, send, F, D, TF, TD, w
  <2> QED
    BY <1>2, <1>3, <2>1, <2>2, <2>3
<1>7. CASE c.old_state = "IDLE" /\ NewState(c, t) = "FACH"
  <2>1. FachEnergy(c, t) = F * send + b * (F * TF) /\ DchEnergy(c, t) = 0
    BY <1>0, <1>5, <1>7 DEF FachEnergy, DchEnergy
  <2>2. MarginalEnergy(c, t) = F * send + b * (F * TF)
    BY <1>1, <1>2, <1>4, <1>7
  <2> HIDE DEF b, send, F, D, TF, TD, w
  <2> QED
    BY <1>2, <1>3, <2>1, <2>2
<1>8. CASE c.old_state = "FACH" /\ NewState(c, t) = "DCH"
  <2>1. FachEnergy(c, t) = b * (F * w) /\ DchEnergy(c, t) = D * send + b * (D * TD)
    BY <1>0, <1>5, <1>8 DEF FachEnergy, DchEnergy
  <2>2. RemainingTail(c.old_state, w) = F * (TF - w) /\ w <= TF
    BY <1>0, <1>8 DEF RemainingTail, InactivityTimer
  <2>3. F * TF - F * (TF - w) = F * w /\ F * (TF - w) \in Nat
    BY <1>0, <2>2, RemainingStay, MulNat
  <2>4. (D * TD + F * TF) - F * (TF - w) = D * TD + F * w
    <3> HIDE DEF b, send, F, D, TF, TD, w
    <3> QED
      BY <1>2, <2>3
  <2>5. b * (D * TD + F * w) = b * (D * TD) + b * (F * w)
    BY <1>0, <1>2, Distributes
  <2>6. MarginalEnergy(c, t) = D * send + b * (D * TD + F * w)
    BY <1>1, <1>4, <1>8, <2>2, <2>4
  <2> HIDE DEF b, send, F, D, TF, TD, w
  <2> QED
    BY <1>2, <1>3, <2>1, <2>5, <2>6
<1>9. CASE c.old_state = "FACH" /\ NewState(c, t) = "FACH"
  <2>1. FachEnergy(c, t) = F * send + b * (F * w) /\ DchEnergy(c, t) = 0
    BY <1>0, <1>5, <1>9 DEF FachEnergy, DchEnergy
  <2>2. RemainingTail(c.old_state, w) = F * (TF - w) /\ w <= TF
    BY <1>0, <1>9 DEF RemainingTail, InactivityTimer
  <2>3. F * TF - F * (TF - w) = F * w
    BY <1>0, <2>2, RemainingStay
  <2>4. MarginalEnergy(c, t) = F * send + b * (F * w)
    BY <1>1, <1>4, <1>9, <2>2, <2>3
  <2> HIDE DEF b, send, F, D, TF, TD, w
  <2> QED
    BY <1>2, <1>3, <2>1, <2>4
<1>10. CASE c.old_state = "DCH"
  <2>1. FachEnergy(c, t) = 0 /\ DchEnergy(c, t) = D * send + b * (D * w)
    BY <1>0, <1>5, <1>10 DEF FachEnergy, DchEnergy
  <2>2. RemainingTail(c.old_state, w) = D * (TD - w) + F * TF /\ w <= TD
    BY <1>0, <1>10 DEF RemainingTail, InactivityTimer
  <2>3. D * TD - D * (TD - w) = D * w /\ D * (TD - w) \in Nat
    BY <1>0, <2>2, RemainingStay, MulNat
  <2>4. (D * TD + F * TF) - (D * (TD - w) + F * TF) = D * w
    <3> HIDE DEF b, send, F, D, TF, TD, w
    <3> QED
      BY <1>2, <2>3
  <2>5. MarginalEnergy(c, t) = D * send + b * (D * w)
    BY <1>0, <1>1, <1>4, <1>10, <2>2, <2>4
  <2> HIDE DEF b, send, F, D, TF, TD, w
  <2> QED
    BY <1>2, <1>3, <2>1, <2>5
<1> QED
  BY <1>0, <1>6, <1>7, <1>8, <1>9, <1>10 DEF MobileState

\* The functor answers every request with the marginal energy, in mJ, rounded down
\* by less than 1 mJ for each of FACH and DCH.
LEMMA RoundedEstimate ==
    ASSUME NEW c \in Snapshots, NEW t \in Sends
    PROVE  LET e == estimate_mobile_energy_cost_from_state(c, t)
               unit == t.bandwidth * SECOND
           IN  /\ e \in Nat
               /\ e * unit <= MarginalEnergy(c, t)
               /\ MarginalEnergy(c, t) < (e + 2) * unit
<1> DEFINE unit == t.bandwidth * SECOND
           f == FachEnergy(c, t)
           d == DchEnergy(c, t)
<1>1. f \in Nat /\ d \in Nat /\ f + d = MarginalEnergy(c, t)
  BY EstimateIsMarginal
<1>2. unit \in Nat \ {0}
  BY EstimateTypes
<1>3. estimate_mobile_energy_cost_from_state(c, t) = (f \div unit) + (d \div unit)
  BY DEF estimate_mobile_energy_cost_from_state, InMilliJoule
<1> HIDE DEF unit, f, d
<1>4. /\ f \div unit \in Nat /\ (f \div unit) * unit <= f
      /\ f < (f \div unit) * unit + unit
  BY <1>1, <1>2, RoundsDown
<1>5. /\ d \div unit \in Nat /\ (d \div unit) * unit <= d
      /\ d < (d \div unit) * unit + unit
  BY <1>1, <1>2, RoundsDown
<1>6. \A x, y, u \in Nat : /\ (x + y) * u = x * u + y * u
                           /\ (x + y + 2) * u = x * u + y * u + 2 * u
                           /\ x * u \in Nat
  BY SMTT(30)
<1>7. estimate_mobile_energy_cost_from_state(c, t) \in Nat
  BY <1>3, <1>4, <1>5
<1>8. estimate_mobile_energy_cost_from_state(c, t) * unit
         = (f \div unit) * unit + (d \div unit) * unit
  BY <1>2, <1>3, <1>4, <1>5, <1>6
<1>9. (estimate_mobile_energy_cost_from_state(c, t) + 2) * unit
         = (f \div unit) * unit + (d \div unit) * unit + 2 * unit
  BY <1>2, <1>3, <1>4, <1>5, <1>6
<1>10. (f \div unit) * unit \in Nat /\ (d \div unit) * unit \in Nat
  BY <1>2, <1>4, <1>5, <1>6
<1>11. /\ (f \div unit) * unit + (d \div unit) * unit <= f + d
       /\ f + d < (f \div unit) * unit + (d \div unit) * unit + 2 * unit
  BY <1>1, <1>2, <1>4, <1>5, <1>10
<1> QED
  BY <1>1, <1>7, <1>8, <1>9, <1>11 DEF unit

\* Whatever the functor has been asked, its answer is the marginal energy.
THEOREM EstimateCorrect == EstimateSpec => []EstimatesMarginalEnergy
<1> DEFINE Inv ==
       /\ computer \in Snapshots
       /\ answer # NotAsked =>
             /\ answer.transfer \in Sends
             /\ answer.energy =
                   estimate_mobile_energy_cost_from_state(computer, answer.transfer)
<1>1. EstimateInit => Inv
  BY DEF EstimateInit
<1>2. Inv /\ [EstimateNext]_estimatevars => Inv'
  <2> SUFFICES ASSUME Inv, [EstimateNext]_estimatevars PROVE Inv'
    OBVIOUS
  <2>1. CASE GetEnergyComputer
    BY <2>1 DEF GetEnergyComputer
  <2>2. CASE EstimateCost
    <3>1. PICK t \in Sends :
             answer' = [transfer |-> t,
                        energy |-> estimate_mobile_energy_cost_from_state(computer, t)]
      BY <2>2 DEF EstimateCost
    <3>2. computer' = computer
      BY <2>2 DEF EstimateCost
    <3>3. /\ answer'.transfer = t
          /\ answer'.energy = estimate_mobile_energy_cost_from_state(computer, t)
      BY <3>1
    <3> QED
      BY <3>2, <3>3
  <2>3. CASE UNCHANGED estimatevars
    BY <2>3 DEF estimatevars
  <2> QED
    BY <2>1, <2>2, <2>3 DEF EstimateNext
<1>3. Inv => EstimatesMarginalEnergy
  BY RoundedEstimate DEF EstimatesMarginalEnergy
<1> QED
  BY <1>1, <1>2, <1>3, PTL DEF EstimateSpec
=============================================================================
