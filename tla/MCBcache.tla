------------------------------ MODULE MCBcache -----------------------------
EXTENDS Bcache, TLC

Symmetry == Permutations(User) \cup Permutations(Block) \cup Permutations(Val)
              \cup Permutations(Buf)
=============================================================================
