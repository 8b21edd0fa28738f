-------------------------------- MODULE Fifo -------------------------------
(***************************************************************************)
(* What a pipe promises: a bounded queue of bytes.  Bytes leave in the     *)
(* order in which they came, none is lost, repeated or made up on the way, *)
(* nothing is added once an end is closed, and a closed end stays closed.  *)
(***************************************************************************)
EXTENDS Naturals, Sequences

CONSTANTS Byte, PIPESIZE

VARIABLES queue, readers, writers     \* whether each end is still open

vars == <<queue, readers, writers>>

Init == queue = << >> /\ readers = TRUE /\ writers = TRUE

Put(b) ==
  /\ readers /\ writers /\ Len(queue) < PIPESIZE
  /\ queue' = Append(queue, b)
  /\ UNCHANGED <<readers, writers>>

Get ==
  /\ readers /\ queue # << >>
  /\ queue' = Tail(queue)
  /\ UNCHANGED <<readers, writers>>

CloseRead  == readers /\ readers' = FALSE /\ UNCHANGED <<queue, writers>>
CloseWrite == writers /\ writers' = FALSE /\ UNCHANGED <<queue, readers>>

Next == (\E b \in Byte : Put(b)) \/ Get \/ CloseRead \/ CloseWrite

Spec == Init /\ [][Next]_vars
=============================================================================
