------------------------- MODULE MCDaemonLifecycle -------------------------
EXTENDS DaemonLifecycle, TLC

\* Processes and callers are interchangeable.
Alike == Permutations(Procs) \cup Permutations(Callers)
=============================================================================
