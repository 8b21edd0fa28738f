------------------------------ MODULE MCSched ------------------------------
(* Sched on small instances.                                               *)
EXTENDS Sched, TLC

\* Scanning order distinguishes processes, never CPUs.
Symmetry == Permutations(CPU)
=============================================================================
