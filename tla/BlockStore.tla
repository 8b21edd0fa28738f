----------------------------- MODULE BlockStore ----------------------------
(***************************************************************************)
(* What the buffer cache promises its callers: each block has one value,   *)
(* which only the process that has the block locked may change, once it    *)
(* has seen it.  Reading the disk, recycling a buffer and writing it back  *)
(* do not show.                                                            *)
(***************************************************************************)
CONSTANTS User, Block, Val, None

VARIABLES val, holder,
          open          \* blocks whose holder was given the contents

vars == <<val, holder, open>>

Init == val \in [Block -> Val] /\ holder = [k \in Block |-> None] /\ open = {}

Lock(p, k) ==
  /\ holder[k] = None
  /\ holder' = [holder EXCEPT ![k] = p]
  /\ UNCHANGED <<val, open>>

\* The holder gets to see the value.
Open(k) ==
  /\ holder[k] # None
  /\ open' = open \cup {k}
  /\ UNCHANGED <<val, holder>>

Update(k) ==
  /\ k \in open
  /\ \E v \in Val : val' = [val EXCEPT ![k] = v]
  /\ UNCHANGED <<holder, open>>

Unlock(k) ==
  /\ k \in open
  /\ holder' = [holder EXCEPT ![k] = None]
  /\ open' = open \ {k}
  /\ UNCHANGED val

Next == \E k \in Block : \/ \E p \in User : Lock(p, k)
                         \/ Open(k) \/ Update(k) \/ Unlock(k)

Spec == Init /\ [][Next]_vars
=============================================================================
