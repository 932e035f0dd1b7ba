------------------------------ MODULE MCMetering ------------------------------
EXTENDS Metering, TLC

\* Requests are alike.
Symmetry == Permutations(Threads)
=============================================================================
