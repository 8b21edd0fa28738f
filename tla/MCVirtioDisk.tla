---------------------------- MODULE MCVirtioDisk ---------------------------
EXTENDS VirtioDisk, TLC

Symmetry == Permutations(Proc)

\* The state without the ring entries that were consumed: both rings are read
\* only between the reader's index and the writer's.
Live(ring, from, to) == [n \in 0 .. ((to - from) % U16) - 1 |-> ring[(from + n) % NUM]]
View ==
  <<free, desc, info, Live(avail, last, aidx), aidx, Live(used, used_idx, uidx), uidx,
    used_idx, last, disk, pc, idx, handler, fetched, raise, isr, served, panicked>>
=============================================================================
