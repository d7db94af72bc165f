---------------------------- MODULE MCWifiHistory ----------------------------
\* Values of the constants of WifiHistory that a configuration cannot write.
EXTENDS WifiHistory

\* A small packet, and a burst that reaches the high-power rate by itself.
MCBursts == {[packets |-> 1, bytes |-> 1], [packets |-> 3, bytes |-> 4]}
=============================================================================
