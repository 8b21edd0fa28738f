------------------------------ MODULE TxnDisk ------------------------------
(***************************************************************************)
(* What log.c promises to the file system: a disk whose contents change    *)
(* durably only between file-system calls.  Calls run concurrently inside  *)
(* one transaction; the transaction becomes durable, all at once, at a     *)
(* moment when no call is in progress; a crash falls back to the last      *)
(* durable contents (kernel/log.c, header comment: "there is never any     *)
(* reasoning required about whether a commit might write an uncommitted    *)
(* system call's updates to disk").                                        *)
(***************************************************************************)

CONSTANTS Proc,      \* kernel threads that make file-system calls
          Block,     \* disk blocks outside the log area
          Val        \* contents of a block

VARIABLES durable,   \* what a crash would leave, once recovered
          view,      \* what bread() returns
          active     \* threads between begin_op() and end_op()

vars == <<durable, view, active>>

TypeOK ==
  /\ durable \in [Block -> Val]
  /\ view \in [Block -> Val]
  /\ active \subseteq Proc

Init ==
  /\ durable \in [Block -> Val]
  /\ view = durable
  /\ active = {}

Begin(p) ==
  /\ p \notin active
  /\ active' = active \cup {p}
  /\ UNCHANGED <<durable, view>>

Write(p, b, v) ==
  /\ p \in active
  /\ view' = [view EXCEPT ![b] = v]
  /\ UNCHANGED <<durable, active>>

End(p) ==
  /\ p \in active
  /\ active' = active \ {p}
  /\ UNCHANGED <<durable, view>>

\* Everything the finished calls wrote becomes durable in one step.
Commit ==
  /\ active = {}
  /\ durable' = view
  /\ UNCHANGED <<view, active>>

Crash ==
  /\ view' = durable
  /\ active' = {}
  /\ UNCHANGED durable

Next ==
  \/ \E p \in Proc : Begin(p) \/ End(p)
  \/ \E p \in Proc, b \in Block, v \in Val : Write(p, b, v)
  \/ Commit
  \/ Crash

Spec == Init /\ [][Next]_vars
=============================================================================
