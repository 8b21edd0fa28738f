------------------------------- MODULE MCLog -------------------------------
(* Log on small instances.                                                 *)
EXTENDS Log, TLC

\* Threads, blocks and contents are interchangeable.
Symmetry == Permutations(Proc) \cup Permutations(Block) \cup Permutations(Val)
=============================================================================
