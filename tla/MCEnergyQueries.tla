--------------------------- MODULE MCEnergyQueries ---------------------------
\* The transfer the average estimate is asked about.
EXTENDS EnergyQueries

MCAverageTransfer == [datalen |-> 40, bandwidth |-> 23, rtt |-> 1]
=============================================================================
