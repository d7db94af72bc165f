------------------------- MODULE CalculationsProofs -------------------------
(***************************************************************************)
(* Theorems about the calculations of MCCalculations, for every input and  *)
(* not only for those the configuration enumerates: the arithmetic of      *)
(* instants, the wifi estimate and the charge of the CPU.                  *)
(***************************************************************************)
EXTENDS MCCalculations, TLAPS, WellFoundedInduction

(* The algebra they need.                                                  *)

LEMMA Products ==
    /\ \A a, b \in Int : a * b \in Int /\ a * b = b * a
    /\ \A a, b \in Nat : a * b \in Nat
    /\ \A a, b \in Nat \ {0} : a * b \in Nat \ {0}
    /\ \A a, b, c \in Int : /\ a * (b * c) = (a * b) * c
                            /\ (a + b) * c = a * c + b * c
                            /\ (a - b) * c = a * c - b * c
                            /\ c * (a + b) = c * a + c * b
                            /\ c * (a - b) = c * a - c * b
<1>1. \A a, b \in Int : a * b \in Int /\ a * b = b * a
  OBVIOUS
<1>2. \A a, b \in Nat : a * b \in Nat
  OBVIOUS
<1>3. \A a, b \in Nat \ {0} : a * b \in Nat \ {0}
  BY SMTT(30)
<1>4. \A a, b, c \in Int : /\ a * (b * c) = (a * b) * c
                           /\ (a + b) * c = a * c + b * c
                           /\ (a - b) * c = a * c - b * c
                           /\ c * (a + b) = c * a + c * b
                           /\ c * (a - b) = c * a - c * b
  OBVIOUS
<1> QED
  BY <1>1, <1>2, <1>3, <1>4

LEMMA ProductsOrdered ==
    \A a, b \in Int, n \in Nat : a <= b => a * n <= b * n /\ n * a <= n * b
<1> SUFFICES ASSUME NEW a \in Int, NEW b \in Int, NEW n \in Nat, a <= b
             PROVE  a * n <= b * n /\ n * a <= n * b
  OBVIOUS
<1>1. b - a \in Nat
  OBVIOUS
<1>2. (b - a) * n \in Nat
  BY <1>1, Products
<1>3. (b - a) * n = b * n - a * n
  OBVIOUS
<1>4. a * n \in Int /\ b * n \in Int /\ a * n = n * a /\ b * n = n * b
  OBVIOUS
<1> QED
  BY <1>2, <1>3, <1>4

\* The quotient, rounded down.
LEMMA Quotient ==
    ASSUME NEW a \in Int, NEW b \in Nat \ {0}
    PROVE  /\ a \div b \in Int
           /\ (a \div b) * b <= a
           /\ a < (a \div b) * b + b
           /\ a >= 0 => a \div b >= 0
<1>1. /\ a \div b \in Int
      /\ (a \div b) * b <= a
      /\ a < (a \div b) * b + b
  BY SMTT(30)
<1> DEFINE q == a \div b
<1> HIDE DEF q
<1>2. q < 0 /\ q \in Int => q * b + b <= 0
  <2> SUFFICES ASSUME q \in Int, q + 1 <= 0 PROVE q * b + b <= 0
    OBVIOUS
  <2>1. (q + 1) * b <= 0 * b
    BY ProductsOrdered
  <2>2. (q + 1) * b = q * b + b /\ 0 * b = 0
    OBVIOUS
  <2> QED
    BY <2>1, <2>2
<1>3. q \in Int /\ a < q * b + b /\ q * b \in Int
  BY <1>1 DEF q
<1>4. a >= 0 => q >= 0
  BY <1>2, <1>3
<1> QED
  BY <1>1, <1>4 DEF q
-----------------------------------------------------------------------------
(* Instants.                                                               *)

Timevals == [tv_sec : Int, sub : 0..(MAX_SUBSECS - 1)]

\* A normalised pair compares with 0 and with a second as its seconds do.
LEMMA SecondsDecide ==
    ASSUME NEW s \in Int, NEW r \in 0..(MAX_SUBSECS - 1)
    PROVE  /\ s * MAX_SUBSECS \in Int
           /\ s * MAX_SUBSECS + r >= 0 <=> s >= 0
           /\ s * MAX_SUBSECS + r >= MAX_SUBSECS <=> s >= 1
<1> DEFINE M == MAX_SUBSECS
           p == s * M
<1>1. M \in Nat \ {0} /\ r \in Int /\ 0 <= r /\ r < M
  BY SubsecondsAssumption
<1>2. p \in Int
  BY <1>1, Products
<1>3. s >= 1 => p >= M
  <2>1. s >= 1 => 1 * M <= s * M
    BY <1>1, ProductsOrdered
  <2> QED
    BY <1>1, <2>1
<1>4. s >= 0 => p >= 0
  <2>1. s >= 0 => 0 * M <= s * M
    BY <1>1, ProductsOrdered
  <2> QED
    BY <1>1, <2>1
<1>5. s <= 0 => p <= 0
  <2>1. s <= 0 => s * M <= 0 * M
    BY <1>1, ProductsOrdered
  <2> QED
    BY <1>1, <2>1
<1>6. s <= -1 => p <= -M
  <2>1. s <= -1 => s * M <= (-1) * M
    BY <1>1, ProductsOrdered
  <2> QED
    BY <1>1, <2>1
<1> HIDE DEF p, M
<1>7. /\ p \in Int
      /\ p + r >= 0 <=> s >= 0
      /\ p + r >= M <=> s >= 1
  BY <1>1, <1>2, <1>3, <1>4, <1>5, <1>6
<1> QED
  BY <1>7 DEF p, M

\* TIMEDIFF, timeradd, timersub and the comparisons agree with arithmetic on single
\* numbers, for every two normalised instants.
THEOREM TimevalArithmetic ==
    ASSUME input \in [kind : {"time"}, begin : Timevals, end : Timevals]
    PROVE  TimevalsAddUp
<1> DEFINE b  == input.begin
           e  == input.end
           M  == MAX_SUBSECS
           bs == b.tv_sec
           es == e.tv_sec
           br == b.sub
           er == e.sub
<1>1. /\ b \in Timevals /\ e \in Timevals
      /\ bs \in Int /\ es \in Int /\ br \in 0..(M - 1) /\ er \in 0..(M - 1)
      /\ M \in Nat \ {0}
  BY SubsecondsAssumption DEF Timevals
<1> HIDE DEF b, e
<1>2. br \in Int /\ 0 <= br /\ br < M /\ er \in Int /\ 0 <= er /\ er < M
  BY <1>1
<1>3. /\ (es - bs) * M = es * M - bs * M
      /\ (es - bs - 1) * M = es * M - bs * M - M
      /\ (bs + es) * M = bs * M + es * M
      /\ (bs + es + 1) * M = bs * M + es * M + M
      /\ es * M \in Int /\ bs * M \in Int
  BY <1>1
<1>4. NotBefore(e, b) <=> InSubseconds(e) >= InSubseconds(b)
  <2>1. CASE er >= br
    <3>1. (es - bs) * M + (er - br) >= 0 <=> es - bs >= 0
      BY <1>1, <1>2, <2>1, SecondsDecide
    <3> QED
      BY <1>1, <1>2, <1>3, <2>1, <3>1 DEF NotBefore, InSubseconds
  <2>2. CASE er < br
    <3>1. (es - bs - 1) * M + (M + er - br) >= 0 <=> es - bs - 1 >= 0
      BY <1>1, <1>2, <2>2, SecondsDecide
    <3> QED
      BY <1>1, <1>2, <1>3, <2>2, <3>1 DEF NotBefore, InSubseconds
  <2> QED
    BY <1>2, <2>1, <2>2
<1>5. /\ Normalised(timeradd(b, e))
      /\ InSubseconds(timeradd(b, e)) = InSubseconds(b) + InSubseconds(e)
  <2>1. CASE br + er >= M
    <3>1. timeradd(b, e) = [tv_sec |-> bs + es + 1, sub |-> br + er - M]
      BY <1>1, <1>2, <2>1 DEF timeradd, Carried
    <3>2. br + er - M \in 0..(M - 1)
      BY <1>1, <1>2, <2>1
    <3>3. (bs + es + 1) * M + (br + er - M) = (bs * M + br) + (es * M + er)
      <4> DEFINE bp == bs * M
                 ep == es * M
      <4>1. (bs + es + 1) * M = bp + ep + M /\ bp \in Int /\ ep \in Int
        BY <1>3
      <4> HIDE DEF bp, ep
      <4>2. (bp + ep + M) + (br + er - M) = (bp + br) + (ep + er)
        BY <1>1, <1>2, <4>1
      <4> QED
        BY <4>1, <4>2 DEF bp, ep
    <3> QED
      BY <3>1, <3>2, <3>3 DEF Normalised, InSubseconds
  <2>2. CASE br + er < M
    <3>1. timeradd(b, e) = [tv_sec |-> bs + es, sub |-> br + er]
      BY <1>1, <1>2, <2>2 DEF timeradd, Carried
    <3> QED
      BY <1>1, <1>2, <1>3, <2>2, <3>1 DEF Normalised, InSubseconds
  <2> QED
    BY <1>1, <1>2, <2>1, <2>2
<1>6. /\ Normalised(timersub(e, b))
      /\ InSubseconds(timersub(e, b)) = InSubseconds(e) - InSubseconds(b)
  <2>1. CASE er - br < 0
    <3>1. timersub(e, b) = [tv_sec |-> es - bs - 1, sub |-> er - br + M]
      BY <2>1 DEF timersub, Borrowed
    <3> QED
      BY <1>1, <1>2, <1>3, <2>1, <3>1 DEF Normalised, InSubseconds
  <2>2. CASE er >= br
    <3>1. ~(er - br < 0)
      BY <1>2, <2>2
    <3>2. timersub(e, b) = [tv_sec |-> es - bs, sub |-> er - br]
      BY <3>1 DEF timersub, Borrowed
    <3> QED
      BY <1>1, <1>2, <1>3, <2>2, <3>2 DEF Normalised, InSubseconds
  <2> QED
    BY <1>1, <1>2, <2>1, <2>2
<1>7. /\ TIMEDIFF(b, e).tv_sec \in Int
      /\ Normalised(TIMEDIFF(b, e))
      /\ InSubseconds(TIMEDIFF(b, e)) = InSubseconds(e) - InSubseconds(b)
  <2>1. CASE er < br
    <3>1. TIMEDIFF(b, e) = [tv_sec |-> es - bs - 1, sub |-> M + er - br]
      BY <2>1 DEF TIMEDIFF
    <3> QED
      BY <1>1, <1>2, <1>3, <2>1, <3>1 DEF Normalised, InSubseconds
  <2>2. CASE er >= br
    <3>1. TIMEDIFF(b, e) = [tv_sec |-> es - bs, sub |-> er - br]
      BY <1>1, <1>2, <2>2 DEF TIMEDIFF
    <3> QED
      BY <1>1, <1>2, <1>3, <2>2, <3>1 DEF Normalised, InSubseconds
  <2> QED
    BY <1>2, <2>1, <2>2
<1>8. TIMEDIFF(b, e).tv_sec >= 1 <=> InSubseconds(TIMEDIFF(b, e)) >= M
  <2> DEFINE s == TIMEDIFF(b, e).tv_sec
             r == TIMEDIFF(b, e).sub
  <2>1. s \in Int /\ r \in 0..(MAX_SUBSECS - 1)
    BY <1>7 DEF Normalised
  <2> HIDE DEF s, r
  <2>2. s * MAX_SUBSECS + r >= MAX_SUBSECS <=> s >= 1
    BY <2>1, SecondsDecide
  <2> QED
    BY <2>2 DEF InSubseconds, s, r
<1> QED
  BY <1>4, <1>5, <1>6, <1>7, <1>8 DEF TimevalsAddUp, b, e
-----------------------------------------------------------------------------
(* The wifi estimate.                                                      *)

WifiTransfers == [datalen : Nat, bandwidth : Nat \ {0}, rtt : Nat]
WifiComputers == [packet_rate : Int, channel_rate_component : Int]

\* The fewest units that cover an amount: a quotient rounded up.
LEMMA RoundedUp ==
    ASSUME NEW amount \in Nat, NEW unit \in Nat \ {0}
    PROVE  LET n == (amount + unit - 1) \div unit
           IN  /\ n \in Nat
               /\ n * unit >= amount
               /\ (n - 1) * unit < amount
<1> DEFINE n == (amount + unit - 1) \div unit
<1>1. amount + unit - 1 \in Nat /\ unit \in Nat
  OBVIOUS
<1>2. /\ n \in Int /\ n >= 0
      /\ n * unit <= amount + unit - 1 /\ amount + unit - 1 < n * unit + unit
  BY <1>1, Quotient
<1> HIDE DEF n
<1>3. (n - 1) * unit = n * unit - unit /\ n * unit \in Int
  BY <1>1, <1>2, Products
<1>4. n \in Nat /\ n * unit >= amount /\ (n - 1) * unit < amount
  BY <1>1, <1>2, <1>3
<1> QED
  BY <1>4 DEF n

\* The code rounds the packets up by looking at the remainder.
LEMMA FewestPackets ==
    ASSUME NEW datalen \in Nat
    PROVE  /\ wifi_mtu \in Nat \ {0}
           /\ cur_packets(datalen) \in 0..datalen
           /\ cur_packets(datalen) * wifi_mtu >= datalen
           /\ cur_packets(datalen) > 0 => (cur_packets(datalen) - 1) * wifi_mtu < datalen
<1> DEFINE m == wifi_mtu
           q == datalen \div m
           r == datalen % m
           p == cur_packets(datalen)
<1>1. m \in Nat \ {0}
  BY WifiEstimateAssumption DEF wifi_mtu
<1> HIDE DEF m
<1>2. /\ q \in Nat /\ r \in Nat /\ r < m
      /\ datalen = q * m + r
  <2>1. q \in Int /\ q >= 0
    BY <1>1, Quotient
  <2>2. r \in 0..(m - 1) /\ datalen = m * q + r
    BY <1>1
  <2>3. m * q = q * m
    BY <1>1, <2>1
  <2> QED
    BY <1>1, <2>1, <2>2, <2>3
<1>3. p = q + IF r > 0 THEN 1 ELSE 0
  BY DEF cur_packets, m
<1> HIDE DEF q, r, p
<1>4. /\ q * m \in Nat
      /\ (q + 1) * m = q * m + m /\ (q - 1) * m = q * m - m
  BY <1>1, <1>2, Products
<1>5. p \in Nat /\ p * m >= datalen /\ (p - 1) * m < datalen
  <2>1. CASE r > 0
    <3>1. p = q + 1 /\ p - 1 = q
      BY <1>2, <1>3, <2>1
    <3> QED
      BY <1>1, <1>2, <1>4, <2>1, <3>1
  <2>2. CASE r = 0
    <3>1. p = q
      BY <1>2, <1>3, <2>2
    <3> QED
      BY <1>1, <1>2, <1>4, <2>2, <3>1
  <2> QED
    BY <1>2, <2>1, <2>2
<1>6. p <= datalen
  <2>1. p > 0 => (p - 1) * 1 <= (p - 1) * m
    BY <1>1, <1>5, ProductsOrdered
  <2>2. p > 0 => (p - 1) * m \in Int
    BY <1>1, <1>5, Products
  <2> QED
    BY <1>5, <2>1, <2>2
<1> QED
  BY <1>1, <1>5, <1>6 DEF p, m

\* For every transfer, packet rate and power of the channel: the estimate is the power
\* the statistics would charge, for each of the fewest whole seconds that cover the
\* transfer.
THEOREM WifiEstimateRight ==
    ASSUME input \in [kind : {"wifi"}, computer : WifiComputers, transfer : WifiTransfers]
    PROVE  WifiEstimateCovers
<1> DEFINE c == input.computer
           t == input.transfer
           unit == t.bandwidth * SECOND
           amount == t.datalen + t.bandwidth * t.rtt
           n == WholeSeconds(t)
           p == cur_packets(t.datalen)
<1>1. /\ t.datalen \in Nat /\ t.bandwidth \in Nat \ {0} /\ t.rtt \in Nat
      /\ c.packet_rate \in Int
      /\ SECOND \in Nat \ {0}
  BY SecondAssumption DEF WifiTransfers, WifiComputers
<1> HIDE DEF c, t
<1>2. /\ unit \in Nat \ {0} /\ t.bandwidth * t.rtt \in Nat /\ amount \in Nat
      /\ t.rtt * t.bandwidth = t.bandwidth * t.rtt
  BY <1>1, Products
<1>3. n = (amount + unit - 1) \div unit
  BY DEF WholeSeconds
<1> HIDE DEF n
<1>4. n \in Nat /\ n * unit >= amount /\ (n - 1) * unit < amount
  <2> HIDE DEF unit, amount
  <2> QED
    BY <1>2, <1>3, RoundedUp
<1>5. \A k \in Int : k * SECOND * t.bandwidth = k * unit
  <2> SUFFICES ASSUME NEW k \in Int PROVE k * SECOND * t.bandwidth = k * unit
    OBVIOUS
  <2>1. k * (SECOND * t.bandwidth) = (k * SECOND) * t.bandwidth
    BY <1>1, Products
  <2>2. SECOND * t.bandwidth = unit
    BY <1>1, Products
  <2> QED
    BY <2>1, <2>2
<1>6. n <= t.datalen + t.rtt
  <2> SUFFICES ASSUME t.datalen + t.rtt <= n - 1 PROVE FALSE
    BY <1>1, <1>4
  <2>1. (t.datalen + t.rtt) * unit <= (n - 1) * unit
    BY <1>1, <1>2, <1>4, ProductsOrdered
  <2>2. (t.datalen + t.rtt) * unit = t.datalen * unit + t.rtt * unit
    BY <1>1, <1>2, Products
  <2>3. t.datalen * 1 <= t.datalen * unit
    BY <1>1, <1>2, ProductsOrdered
  <2>4. t.rtt * unit >= t.bandwidth * t.rtt
    <3>1. t.bandwidth * 1 <= t.bandwidth * SECOND
      BY <1>1, ProductsOrdered
    <3>2. t.rtt * t.bandwidth <= t.rtt * unit
      BY <1>1, <1>2, <3>1, ProductsOrdered
    <3> QED
      BY <1>2, <3>2
  <2>5. t.datalen * unit \in Nat /\ t.rtt * unit \in Nat /\ (n - 1) * unit \in Int
    BY <1>1, <1>2, <1>4, Products
  <2> HIDE DEF unit
  <2> QED
    BY <1>1, <1>2, <1>4, <2>1, <2>2, <2>3, <2>4, <2>5
<1>7. /\ n * SECOND * t.bandwidth >= t.datalen + t.rtt * t.bandwidth
      /\ n > 0 => ~((n - 1) * SECOND * t.bandwidth >= t.datalen + t.rtt * t.bandwidth)
  <2>1. /\ n * SECOND * t.bandwidth = n * unit
        /\ (n - 1) * SECOND * t.bandwidth = (n - 1) * unit
    BY <1>4, <1>5
  <2>2. n * unit \in Int /\ (n - 1) * unit \in Int
    BY <1>2, <1>4, Products
  <2>3. t.datalen + t.rtt * t.bandwidth = amount
    BY <1>2
  <2> HIDE DEF unit, amount
  <2> QED
    BY <1>2, <1>4, <2>1, <2>2, <2>3
<1>8. /\ p \in 0..t.datalen
      /\ p * wifi_mtu >= t.datalen
      /\ p > 0 => ~((p - 1) * wifi_mtu >= t.datalen)
  <2>1. /\ wifi_mtu \in Nat \ {0} /\ p \in 0..t.datalen
        /\ p * wifi_mtu >= t.datalen
        /\ p > 0 => (p - 1) * wifi_mtu < t.datalen
    BY <1>1, FewestPackets
  <2> HIDE DEF p
  <2>2. (p - 1) * wifi_mtu \in Int
    BY <1>1, <2>1, Products
  <2> QED
    BY <1>1, <2>1, <2>2
<1>9. estimate_wifi_energy_cost(c, t) =
         n * IF p + c.packet_rate > WIFI_PACKET_RATE_THRESHOLD
             THEN WIFI_HIGH_POWER_BASE + c.channel_rate_component
             ELSE WIFI_LOW_POWER
  BY DEF estimate_wifi_energy_cost, TransferPower, wifi_high_state, n
<1>10. n \in 0..t.datalen + t.rtt
  BY <1>1, <1>4, <1>6
<1> HIDE DEF p
<1> QED
  BY <1>7, <1>8, <1>9, <1>10 DEF WifiEstimateCovers, c, t
-----------------------------------------------------------------------------
(* The charge of the CPU.                                                  *)

LEMMA LeastOf ==
    ASSUME NEW T, T \subseteq Nat, T # {}
    PROVE  \E x \in T : \A y \in T : x <= y
<1> DEFINE R == OpToRel(<, Nat)
<1>1. \A x, y \in Nat : y < x => <<y, x>> \in R
  BY DEF OpToRel
<1>2. IsWellFoundedOn(R, Nat)
  BY NatLessThanWellFounded
<1> HIDE DEF R
<1>3. PICK x \in T : \A y \in T : <<y, x>> \notin R
  BY <1>2, WFMin
<1>4. ASSUME NEW y \in T PROVE x <= y
  <2>1. x \in Nat /\ y \in Nat
    OBVIOUS
  <2>2. ~(y < x)
    BY <1>1, <1>3, <2>1
  <2> QED
    BY <2>1, <2>2
<1> QED
  BY <1>4

LEMMA GreatestBelow ==
    ASSUME NEW T, T \subseteq Nat, T # {}, NEW bound \in Nat, \A x \in T : x < bound
    PROVE  \E x \in T : \A y \in T : y <= x
<1> DEFINE D == {bound - x : x \in T}
<1>1. D \subseteq Nat /\ D # {}
  <2>1. \A x \in T : x \in Nat /\ x < bound
    OBVIOUS
  <2>2. \A x \in T : bound - x \in Nat
    BY <2>1
  <2> QED
    BY <2>2
<1>2. PICK d \in D : \A e \in D : d <= e
  BY <1>1, LeastOf
<1>3. PICK x \in T : d = bound - x
  BY <1>2
<1>4. \A y \in T : bound - x <= bound - y
  BY <1>2, <1>3
<1>5. \A y \in T : y <= x
  BY <1>4
<1> QED
  BY <1>5

\* Two readings of /proc/stat whose counters have not run backwards, or the second of
\* which failed.
Readings ==
    {r \in [last : [StatField -> Nat], stat : [StatField -> Nat] \cup {<<>>}] :
        r.stat # <<>> => \A f \in StatField : r.last[f] <= r.stat[f]}

LEMMA UtilizationBounds ==
    ASSUME NEW r \in Readings
    PROVE  LET u == get_and_update_cpu_utilization(r.last, r.stat)
           IN  /\ u[1] \in Nat /\ u[2] \in Nat \ {0}
               /\ u[1] <= 100 * u[2]
<1> DEFINE last == r.last
           stat == r.stat
<1>1. CASE DOMAIN stat = {}
  <2>1. get_and_update_cpu_utilization(last, stat) = <<0, 1>>
    BY <1>1 DEF get_and_update_cpu_utilization
  <2> QED
    BY <2>1
<1>2. CASE DOMAIN stat # {}
  <2>1. /\ last \in [StatField -> Nat] /\ stat \in [StatField -> Nat]
        /\ \A f \in StatField : last[f] <= stat[f]
    BY <1>2 DEF Readings
  <2> HIDE DEF last, stat
  <2>2. \A f \in {"user", "user_low_priority", "sys", "idle", "io", "irq", "softirq"} :
           last[f] \in Nat /\ stat[f] \in Nat /\ last[f] <= stat[f]
    BY <2>1 DEF StatField
  <2>3. /\ Busy(last, stat) \in Nat /\ Elapsed(last, stat) \in Nat \ {0}
        /\ Busy(last, stat) <= Elapsed(last, stat)
    BY <2>2 DEF Busy, Elapsed, total, user_total, sys_total
  <2>4. get_and_update_cpu_utilization(last, stat)
           = <<100 * Busy(last, stat), Elapsed(last, stat)>>
    BY <1>2, <2>3 DEF get_and_update_cpu_utilization
  <2>5. \A b, e \in Nat : b <= e => 100 * b \in Nat /\ 100 * b <= 100 * e
    OBVIOUS
  <2> QED
    BY <2>3, <2>4, <2>5 DEF last, stat
<1> QED
  BY <1>1, <1>2

\* A frequency up to the largest of the table has a coefficient, not above the largest.
LEMMA CoefficientBounds ==
    ASSUME NEW freq \in Nat, InTheTable(freq)
    PROVE  LET coeff == cpu_power_coeff(freq)
           IN  /\ coeff[1] \in Nat /\ coeff[2] \in Nat \ {0}
               /\ coeff[1] <= max_cpu_freq_coeff * coeff[2]
<1>0. /\ TableFreqs \subseteq Nat /\ min_cpu_freq \in TableFreqs
      /\ \A f \in TableFreqs : /\ min_cpu_freq <= f
                               /\ cpu_freq_power_coeffs[f] \in Nat
                               /\ cpu_freq_power_coeffs[f] <= max_cpu_freq_coeff
      /\ \A f, g \in TableFreqs :
            f <= g => cpu_freq_power_coeffs[f] <= cpu_freq_power_coeffs[g]
      /\ max_cpu_freq_coeff \in Nat
  BY CpuTableAssumption
<1>1. ASSUME NEW f \in TableFreqs, cpu_power_coeff(freq) = <<cpu_freq_power_coeffs[f], 1>>
      PROVE  LET coeff == cpu_power_coeff(freq)
             IN  /\ coeff[1] \in Nat /\ coeff[2] \in Nat \ {0}
                 /\ coeff[1] <= max_cpu_freq_coeff * coeff[2]
  <2> DEFINE c == cpu_freq_power_coeffs[f]
  <2>1. c \in Nat /\ c <= max_cpu_freq_coeff /\ max_cpu_freq_coeff \in Nat
    BY <1>0
  <2>2. cpu_power_coeff(freq)[1] = c /\ cpu_power_coeff(freq)[2] = 1
    BY <1>1
  <2> HIDE DEF c
  <2>3. c <= max_cpu_freq_coeff * 1
    BY <2>1
  <2> QED
    BY <2>1, <2>2, <2>3
<1>2. CASE freq \in TableFreqs
  <2>1. ~(freq < min_cpu_freq)
    BY <1>0, <1>2
  <2>2. cpu_power_coeff(freq) = <<cpu_freq_power_coeffs[freq], 1>>
    BY <1>2, <2>1 DEF cpu_power_coeff
  <2> QED
    BY <1>1, <1>2, <2>2
<1>3. CASE freq \notin TableFreqs /\ freq < min_cpu_freq
  <2>1. cpu_power_coeff(freq) = <<cpu_freq_power_coeffs[min_cpu_freq], 1>>
    BY <1>3 DEF cpu_power_coeff
  <2> QED
    BY <1>0, <1>1, <2>1
<1>4. CASE freq \notin TableFreqs /\ ~(freq < min_cpu_freq)
  <2> DEFINE Above == {f \in TableFreqs : f > freq}
             Below == {f \in TableFreqs : f < freq}
             upper == upper_bound(freq)
             lower == entry_below(freq)
  <2>1. \E u \in Above : \A f \in Above : u <= f
    <3>1. Above \subseteq Nat
      BY <1>0
    <3>2. Above # {}
      BY <1>0, <1>4 DEF InTheTable
    <3> HIDE DEF Above
    <3> QED
      BY <3>1, <3>2, LeastOf
  <2>2. \E l \in Below : \A f \in Below : f <= l
    <3>1. Below \subseteq Nat /\ \A f \in Below : f < freq
      BY <1>0
    <3>2. min_cpu_freq \in Below
      BY <1>0, <1>4
    <3> HIDE DEF Below
    <3> QED
      BY <3>1, <3>2, GreatestBelow
  <2>3. upper \in TableFreqs /\ upper > freq
    <3>1. \E u \in TableFreqs : u > freq /\ \A f \in TableFreqs : f > freq => u <= f
      BY <2>1
    <3> QED
      BY <3>1 DEF upper_bound
  <2>4. lower \in TableFreqs /\ lower < freq
    <3>1. \E l \in TableFreqs : l < freq /\ \A f \in TableFreqs : f < freq => f <= l
      BY <2>2
    <3> QED
      BY <3>1 DEF entry_below
  <2> HIDE DEF upper, lower
  <2> DEFINE a == cpu_freq_power_coeffs[lower]
             b == cpu_freq_power_coeffs[upper]
             w == upper - lower
             x == freq - lower
  <2>5. cpu_power_coeff(freq) = <<a * w + x * (b - a), w>>
    BY <1>4 DEF cpu_power_coeff, Interpolated, upper, lower
  <2>6. /\ a \in Nat /\ b \in Nat /\ a <= b /\ b <= max_cpu_freq_coeff
        /\ w \in Nat \ {0} /\ x \in Nat /\ x <= w
    BY <1>0, <2>3, <2>4
  <2> HIDE DEF a, b, w, x
  <2>7. /\ b - a \in Nat /\ a * w \in Nat /\ x * (b - a) \in Nat
        /\ x * (b - a) <= w * (b - a)
        /\ w * (b - a) = b * w - a * w
        /\ b * w <= max_cpu_freq_coeff * w
    <3>1. b - a \in Nat
      BY <2>6
    <3>2. w * (b - a) = b * w - a * w
      BY <2>6
    <3> QED
      BY <1>0, <2>6, <3>1, <3>2, Products, ProductsOrdered
  <2>8. b * w \in Nat /\ max_cpu_freq_coeff * w \in Nat /\ w * (b - a) \in Int
    BY <1>0, <2>6, <2>7, Products
  <2>9. a * w + x * (b - a) \in Nat /\ a * w + x * (b - a) <= max_cpu_freq_coeff * w
    BY <2>7, <2>8
  <2> QED
    BY <2>5, <2>6, <2>9
<1> QED
  BY <1>2, <1>3, <1>4

\* A quotient of products, against the quotient of their bounds.
LEMMA QuotientBelow ==
    ASSUME NEW x \in Nat, NEW m \in Nat, NEW unit \in Nat \ {0}, NEW k \in Nat \ {0},
           x <= m * k
    PROVE  /\ 0 <= x \div (unit * k)
           /\ x \div (unit * k) <= m \div unit
<1> DEFINE q == x \div (unit * k)
           p == m \div unit
<1>1. unit * k \in Nat \ {0}
  BY Products
<1>2. q \in Int /\ q >= 0 /\ q * (unit * k) <= x
  BY <1>1, Quotient
<1>3. p \in Int /\ m < p * unit + unit
  BY Quotient
<1> HIDE DEF q, p
<1>4. (q * unit) * k <= m * k
  <2>1. q * (unit * k) = (q * unit) * k /\ q * (unit * k) \in Int /\ m * k \in Int
    BY <1>1, <1>2, Products
  <2> QED
    BY <1>2, <2>1
<1>5. q * unit <= m
  <2> SUFFICES ASSUME m + 1 <= q * unit PROVE FALSE
    BY <1>2, Products
  <2>1. q * unit \in Int
    BY <1>2, Products
  <2>2. (m + 1) * k <= (q * unit) * k
    BY <2>1, ProductsOrdered
  <2>3. (m + 1) * k = m * k + k /\ m * k \in Int /\ (q * unit) * k \in Int
    BY <2>1, Products
  <2> QED
    BY <1>4, <2>2, <2>3
<1>6. q <= p
  <2> SUFFICES ASSUME p + 1 <= q PROVE FALSE
    BY <1>2, <1>3
  <2>1. (p + 1) * unit <= q * unit
    BY <1>2, <1>3, ProductsOrdered
  <2>2. (p + 1) * unit = p * unit + unit /\ p * unit \in Int /\ q * unit \in Int
    BY <1>2, <1>3, Products
  <2> QED
    BY <1>3, <1>5, <2>1, <2>2
<1> QED
  BY <1>2, <1>6 DEF q, p

\* For every table and any two readings: the utilisation is a percentage, and a second
\* of the CPU is never charged at more than that of a pegged CPU.
THEOREM CpuChargeBounded ==
    ASSUME input.kind = "cpu", input.freq \in Nat \cup {-1},
           [last |-> input.last, stat |-> input.stat] \in Readings
    PROVE  CpuChargeBelowPegged
<1> DEFINE r == [last |-> input.last, stat |-> input.stat]
           u == get_and_update_cpu_utilization(input.last, input.stat)
           freq == get_cpu_freq(u, input.freq)
           coeff == cpu_power_coeff(freq)
           energy == cpu_energy(input.last, input.stat, input.freq)
<1>1. u[1] \in Nat /\ u[2] \in Nat \ {0} /\ u[1] <= 100 * u[2]
  <2>1. r \in Readings /\ r.last = input.last /\ r.stat = input.stat
    OBVIOUS
  <2> HIDE DEF r
  <2> QED
    BY <2>1, UtilizationBounds
<1> HIDE DEF u
<1>2. freq \in Nat
  BY CpuTableAssumption DEF get_cpu_freq
<1>3. ASSUME InTheTable(freq)
      PROVE  0 <= energy /\ energy <= estimate_pegged_cpu_energy(1)
  <2>1. /\ coeff[1] \in Nat /\ coeff[2] \in Nat \ {0}
        /\ coeff[1] <= max_cpu_freq_coeff * coeff[2]
    BY <1>2, <1>3, CoefficientBounds
  <2>2. energy = (coeff[1] * u[1]) \div (COEFF_UNIT * coeff[2] * u[2])
    BY DEF cpu_energy, u
  <2> HIDE DEF coeff, freq, energy
  <2>3. COEFF_UNIT \in Nat \ {0} /\ max_cpu_freq_coeff \in Nat
    BY CpuTableAssumption
  <2> DEFINE k == coeff[2] * u[2]
             x == coeff[1] * u[1]
             m == max_cpu_freq_coeff * 100
  <2>4. k \in Nat \ {0} /\ x \in Nat /\ m \in Nat
    BY <1>1, <2>1, <2>3, Products
  <2>5. COEFF_UNIT * coeff[2] * u[2] = COEFF_UNIT * k
    BY <1>1, <2>1, <2>3, Products
  <2>6. x <= m * k
    <3> DEFINE c1 == coeff[1]
               c2 == coeff[2]
               u1 == u[1]
               u2 == u[2]
    <3>1. /\ c1 \in Nat /\ c2 \in Nat /\ u1 \in Nat /\ u2 \in Nat
          /\ c1 <= max_cpu_freq_coeff * c2 /\ u1 <= 100 * u2
      BY <1>1, <2>1
    <3> HIDE DEF c1, c2, u1, u2
    <3>2. max_cpu_freq_coeff * c2 \in Nat /\ 100 * u2 \in Nat
      BY <2>3, <3>1, Products
    <3>3. c1 * u1 <= (max_cpu_freq_coeff * c2) * u1
      BY <3>1, <3>2, ProductsOrdered
    <3>4. (max_cpu_freq_coeff * c2) * u1 <= (max_cpu_freq_coeff * c2) * (100 * u2)
      BY <3>1, <3>2, ProductsOrdered
    <3>5. (max_cpu_freq_coeff * c2) * (100 * u2) = (max_cpu_freq_coeff * 100) * (c2 * u2)
      BY <2>3, <3>1
    <3>6. /\ c1 * u1 \in Int /\ (max_cpu_freq_coeff * c2) * u1 \in Int
          /\ (max_cpu_freq_coeff * c2) * (100 * u2) \in Int
      BY <3>1, <3>2, Products
    <3>7. c1 * u1 <= (max_cpu_freq_coeff * 100) * (c2 * u2)
      BY <3>3, <3>4, <3>5, <3>6
    <3> QED
      BY <3>7 DEF c1, c2, u1, u2
  <2>7. estimate_pegged_cpu_energy(1) = m \div COEFF_UNIT
    BY <2>3, <2>4 DEF estimate_pegged_cpu_energy
  <2> HIDE DEF k, x, m
  <2>8. energy = x \div (COEFF_UNIT * k)
    BY <2>2, <2>5 DEF x
  <2> QED
    BY <2>3, <2>4, <2>6, <2>7, <2>8, QuotientBelow
<1> HIDE DEF freq
<1>4. 0 <= u[1] /\ u[1] <= 100 * u[2]
  BY <1>1
<1> QED
  BY <1>3, <1>4 DEF CpuChargeBelowPegged, u, freq
-----------------------------------------------------------------------------
(* Of the specification: every input it starts with is one of those above. *)

Calculable ==
    \/ input = NoInput
    \/ input \in [kind : {"wifi"}, computer : WifiComputers, transfer : WifiTransfers]
    \/ input.kind = "cpu" /\ input.freq \in Nat \cup {-1}
                          /\ [last |-> input.last, stat |-> input.stat] \in Readings
    \/ input \in [kind : {"time"}, begin : Timevals, end : Timevals]

LEMMA CalculableInit ==
    ASSUME CalcInit
    PROVE  Calculable
<1>1. CASE input = NoInput
  BY <1>1 DEF Calculable
<1>2. CASE input \in WifiInputs
  BY <1>2 DEF Calculable, WifiInputs, WifiComputers, WifiTransfers
<1>3. CASE input \in CpuInputs
  <2> DEFINE lasts == {[f \in StatField |-> n] : n \in {0, 5}}
             freqs == {-1, 100, 245, 300, 384, 800, 998, 1100}
  <2>1. lasts \subseteq [StatField -> Nat] /\ freqs \subseteq Nat \cup {-1}
    OBVIOUS
  <2>2. CASE input \in [kind : {"cpu"}, last : lasts, freq : freqs, stat : {<<>>}]
    <3>1. input.kind = "cpu" /\ input.last \in lasts /\ input.freq \in freqs
          /\ input.stat = <<>>
      BY <2>2
    <3> HIDE DEF lasts, freqs
    <3>2. [last |-> input.last, stat |-> input.stat] \in Readings
      BY <2>1, <3>1 DEF Readings
    <3> QED
      BY <2>1, <3>1, <3>2 DEF Calculable
  <2>3. ASSUME NEW last \in lasts, NEW delta \in StatReadings({0, 3}), NEW freq \in freqs,
               input = [kind |-> "cpu", last |-> last, freq |-> freq,
                        stat |-> [f \in StatField |-> last[f] + delta[f]]]
        PROVE  Calculable
    <3> DEFINE stat == [f \in StatField |-> last[f] + delta[f]]
    <3>1. /\ last \in [StatField -> Nat]
          /\ \A f \in StatField : last[f] \in Nat /\ delta[f] \in {0, 3}
      BY <2>1, <2>3 DEF StatReadings
    <3>2. stat \in [StatField -> Nat] /\ \A f \in StatField : last[f] <= stat[f]
      BY <3>1
    <3>3. input.kind = "cpu" /\ input.last = last /\ input.freq = freq /\ input.stat = stat
      BY <2>3
    <3> HIDE DEF stat, lasts, freqs
    <3>4. [last |-> input.last, stat |-> input.stat] \in Readings
      BY <3>1, <3>2, <3>3 DEF Readings
    <3> QED
      BY <2>1, <2>3, <3>3, <3>4 DEF Calculable
  <2> QED
    BY <1>3, <2>2, <2>3 DEF CpuInputs
<1>4. CASE input \in TimeInputs
  BY <1>4, SubsecondsAssumption DEF Calculable, TimeInputs, TimevalsUpTo, Timevals
<1> QED
  BY <1>1, <1>2, <1>3, <1>4 DEF CalcInit

LEMMA CalculableRight ==
    ASSUME Calculable
    PROVE  WifiEstimateCovers /\ CpuChargeBelowPegged /\ TimevalsAddUp
<1>1. CASE input = NoInput
  BY <1>1 DEF NoInput, WifiEstimateCovers, CpuChargeBelowPegged, TimevalsAddUp
<1>2. CASE input \in [kind : {"wifi"}, computer : WifiComputers, transfer : WifiTransfers]
  <2>1. input.kind = "wifi"
    BY <1>2
  <2> QED
    BY <1>2, <2>1, WifiEstimateRight DEF CpuChargeBelowPegged, TimevalsAddUp
<1>3. CASE input.kind = "cpu" /\ input.freq \in Nat \cup {-1}
           /\ [last |-> input.last, stat |-> input.stat] \in Readings
  BY <1>3, CpuChargeBounded DEF WifiEstimateCovers, TimevalsAddUp
<1>4. CASE input \in [kind : {"time"}, begin : Timevals, end : Timevals]
  <2>1. input.kind = "time"
    BY <1>4
  <2> QED
    BY <1>4, <2>1, TimevalArithmetic DEF WifiEstimateCovers, CpuChargeBelowPegged
<1> QED
  BY <1>1, <1>2, <1>3, <1>4 DEF Calculable

\* Every calculation of the specification comes out right: its inputs are among those
\* of the theorems above, and do not change.
THEOREM CalculationsRight ==
    CalcSpec => [](WifiEstimateCovers /\ CpuChargeBelowPegged /\ TimevalsAddUp)
<1>1. CalcInit => Calculable
  BY CalculableInit
<1>2. Calculable /\ [CalcNext]_calcvars => Calculable'
  BY DEF Calculable, CalcNext, AskCellular, Calculated, calcvars
<1>3. Calculable => WifiEstimateCovers /\ CpuChargeBelowPegged /\ TimevalsAddUp
  BY CalculableRight
<1> QED
  BY <1>1, <1>2, <1>3, PTL DEF CalcSpec
=============================================================================
