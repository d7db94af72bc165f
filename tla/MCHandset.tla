------------------------------ MODULE MCHandset ------------------------------
\* Values of the constants of Handset that a configuration cannot write.
EXTENDS Handset

\* A burst that reaches the high-power rate by itself, and a megabit in a second.
MCBursts == {[packets |-> 3, bytes |-> 4]}
=============================================================================
