------------------------------- MODULE MCAccess -------------------------------
EXTENDS AccessControl, TLC

\* Every invariant of the module is symmetric in the users and in the handlers.
Symmetry == Permutations(Users) \cup Permutations(Threads)
=============================================================================
