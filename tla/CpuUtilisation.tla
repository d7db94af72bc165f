--------------------------- MODULE CpuUtilisation ---------------------------
(***************************************************************************)
(* The energy of the CPU in a second (libpowertutor.cpp, power_model.cpp): *)
(* its utilisation from two readings of /proc/stat, the power coefficient  *)
(* of its frequency by interpolation, and their product.  The doubles are  *)
(* pairs of a numerator and a positive denominator.                        *)
(***************************************************************************)
EXTENDS Integers

CONSTANTS
    cpu_freq_power_coeffs,  \* of each frequency (MHz) in the table
    min_cpu_freq,
    max_cpu_freq_coeff,
    COEFF_UNIT              \* the coefficients count parts of a mW, so many to one

TableFreqs == DOMAIN cpu_freq_power_coeffs

ASSUME CpuTableAssumption ==
    /\ COEFF_UNIT \in Nat \ {0} /\ max_cpu_freq_coeff \in Nat
    /\ TableFreqs \subseteq Nat
    /\ min_cpu_freq \in TableFreqs
    /\ \A f \in TableFreqs :
          /\ min_cpu_freq <= f
          /\ cpu_freq_power_coeffs[f] \in Nat
          /\ cpu_freq_power_coeffs[f] <= max_cpu_freq_coeff
          /\ \A g \in TableFreqs :
                f <= g => cpu_freq_power_coeffs[f] <= cpu_freq_power_coeffs[g]

\* "cpu <user> <user-low-priority> <sys> <idle> <i/o> <irq> <soft-irq>"
\* A reading that failed has no fields.
StatField == {"user", "user_low_priority", "sys", "idle", "io", "irq", "softirq"}

user_total(stat) == stat["user"] + stat["user_low_priority"]
sys_total(stat) == stat["sys"] + stat["irq"] + stat["softirq"]
total_without_irqs(stat) == user_total(stat) + stat["sys"] + stat["idle"] + stat["io"]
total(stat) == user_total(stat) + sys_total(stat) + stat["idle"] + stat["io"]

\* Between the reading of the last charge and this one.  Nothing is divided by 0:
\* max(1.0, total - last_cpu_total).
Busy(last, stat) ==
    user_total(stat) - user_total(last) + sys_total(stat) - sys_total(last)
Elapsed(last, stat) ==
    IF total(stat) - total(last) >= 1 THEN total(stat) - total(last) ELSE 1

\* In percent, not below 0; a reading that failed counts as an idle CPU.
get_and_update_cpu_utilization(last, stat) ==
    IF DOMAIN stat = {} \/ Busy(last, stat) < 0
    THEN <<0, 1>> ELSE <<100 * Busy(last, stat), Elapsed(last, stat)>>

\* If the frequency cannot be read, or nothing ran, it is the lowest.
get_cpu_freq(utilization, scaling_cur_freq) ==
    IF utilization[1] = 0 \/ scaling_cur_freq = -1 THEN min_cpu_freq
                                                   ELSE scaling_cur_freq

\* The neighbours of a frequency that is not in the table.  (Above the table
\* lower_bound finds no entry either, and an assertion fails.)
upper_bound(freq) ==
    CHOOSE u \in TableFreqs : u > freq /\ \A f \in TableFreqs : f > freq => u <= f
entry_below(freq) ==
    CHOOSE l \in TableFreqs : l < freq /\ \A f \in TableFreqs : f < freq => f <= l

InTheTable(freq) == \E f \in TableFreqs : freq <= f

Interpolated(lower, upper, freq) ==
    <<cpu_freq_power_coeffs[lower] * (upper - lower)
      + (freq - lower) * (cpu_freq_power_coeffs[upper] - cpu_freq_power_coeffs[lower]),
      upper - lower>>

cpu_power_coeff(freq) ==
    CASE freq \in TableFreqs -> <<cpu_freq_power_coeffs[freq], 1>>
      [] freq < min_cpu_freq -> <<cpu_freq_power_coeffs[min_cpu_freq], 1>>
      [] OTHER -> Interpolated(entry_below(freq), upper_bound(freq), freq)

\* cpu_power_coeff(cpu_freq) * utilization, converted to int.
cpu_energy(last, stat, scaling_cur_freq) ==
    LET utilization == get_and_update_cpu_utilization(last, stat)
        coeff == cpu_power_coeff(get_cpu_freq(utilization, scaling_cur_freq))
    IN  (coeff[1] * utilization[1]) \div (COEFF_UNIT * coeff[2] * utilization[2])

\* PowerModel::estimate_pegged_cpu_energy, of so many seconds.
estimate_pegged_cpu_energy(seconds) == (max_cpu_freq_coeff * 100 * seconds) \div COEFF_UNIT
=============================================================================
