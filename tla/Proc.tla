-------------------------------- MODULE Proc -------------------------------
(***************************************************************************)
(* The life of a process: allocproc, freeproc, fork, exit, reparent, wait, *)
(* kill and killed of kernel/proc.c, with usertrap()'s tests of p->killed. *)
(*                                                                         *)
(* A step is what a thread does between two points where another CPU can   *)
(* interfere: p->parent belongs to wait_lock, the other fields to p->lock. *)
(* A lock held within one step only is a guard (it must be free).  Going   *)
(* to sleep and wakeup() are single steps here; module Sched has them in   *)
(* full.                                                                   *)
(***************************************************************************)
EXTENDS Integers, FiniteSets

CONSTANTS NPROC,        \* size of the process table
          MAXPID,       \* bound on allocpid()
          KillArgs      \* the arguments that programs pass to kill()

ASSUME ProcAssumption == NPROC \in Nat \ {0} /\ MAXPID \in Nat \ {0} /\ KillArgs \subseteq Nat

Slot == 1 .. NPROC
None == 0                       \* no process: a null pointer, or a free lock
initproc == 1                   \* userinit() gets the first slot

VARIABLES
  state, chan, killed, pid, parent,    \* struct proc; no step tests xstate
  plock,        \* holder of p->lock, where it is held across steps
  wait_lock,    \* holder of wait_lock
  nextpid,
  onstack,      \* a CPU executes on, or will return to, p's kernel stack
  pc,           \* where p's thread stands
  scan,         \* its loop variable in allocproc() and wait()
  np,           \* its local variable in fork()
  havekids,     \* its local variable in wait()
  panicked

fields == <<state, chan, killed, pid, parent>>
locks == <<plock, wait_lock>>
locals == <<scan, np, havekids>>
vars == <<fields, locks, nextpid, onstack, pc, locals, panicked>>

State == {"UNUSED", "USED", "SLEEPING", "RUNNABLE", "RUNNING", "ZOMBIE"}
PC == {"user", "usertrap", "allocproc", "fork_copy", "fork_parent", "fork_run",
       "wait", "wait_scan", "wait_sleep", "wait_woken",
       "exit", "reparent", "exit_wakeup", "exit_zombie", "exit_sched", "dead"}

\* Thread p executes.
On(p, l) == panicked = "no" /\ state[p] = "RUNNING" /\ pc[p] = l
Goto(p, l) == pc' = [pc EXCEPT ![p] = l]

\* state after wakeup(c), called by another process
Wakeup(c) == [q \in Slot |-> IF state[q] = "SLEEPING" /\ chan[q] = c
                             THEN "RUNNABLE" ELSE state[q]]
-----------------------------------------------------------------------------
\* scheduler() picks p, on whichever CPU, and switches to its stack.
Schedule(p) ==
  /\ panicked = "no" /\ state[p] = "RUNNABLE" /\ plock[p] = None
  /\ state' = [state EXCEPT ![p] = "RUNNING"]
  /\ onstack' = [onstack EXCEPT ![p] = TRUE]
  /\ UNCHANGED <<chan, killed, pid, parent, locks, nextpid, pc, locals, panicked>>

\* freeproc(q), with q->lock held
freeproc(q) ==
  /\ pid' = [pid EXCEPT ![q] = 0]
  /\ parent' = [parent EXCEPT ![q] = None]
  /\ chan' = [chan EXCEPT ![q] = None]
  /\ killed' = [killed EXCEPT ![q] = FALSE]
  /\ state' = [state EXCEPT ![q] = "UNUSED"]

-----------------------------------------------------------------------------
(* usertrap(): a trap enters the kernel unless p was killed, and returns   *)
(* to user space unless p was killed meanwhile.                            *)

exitOr(p, l) == Goto(p, IF killed[p] THEN "exit" ELSE l)

\* ecall: the program calls fork or wait.
Syscall(p) ==
  /\ On(p, "user") /\ plock[p] = None
  /\ exitOr(p, "allocproc") \/ exitOr(p, "wait")
  /\ scan' = [scan EXCEPT ![p] = 1]
  /\ UNCHANGED <<fields, locks, nextpid, onstack, np, havekids, panicked>>

\* The program calls exit; /init, user/init.c, does not.
SysExit(p) ==
  /\ On(p, "user") /\ plock[p] = None /\ p # initproc
  /\ Goto(p, "exit")
  /\ UNCHANGED <<fields, locks, nextpid, onstack, locals, panicked>>

\* An interrupt from user space.
Interrupt(p) ==
  /\ On(p, "user")
  /\ Goto(p, "usertrap")
  /\ UNCHANGED <<fields, locks, nextpid, onstack, locals, panicked>>

\* The last test of killed(p), then usertrapret().
usertrap(p) ==
  /\ On(p, "usertrap") /\ plock[p] = None
  /\ exitOr(p, "user")
  /\ UNCHANGED <<fields, locks, nextpid, onstack, locals, panicked>>

-----------------------------------------------------------------------------
(* fork()                                                                  *)

\* allocproc(): one turn of its loop; the slot found stays locked.
allocproc_next(p) ==
  /\ On(p, "allocproc") /\ scan[p] \in Slot /\ plock[scan[p]] = None
  /\ state[scan[p]] # "UNUSED"
  /\ scan' = [scan EXCEPT ![p] = @ + 1]
  /\ UNCHANGED <<fields, locks, nextpid, onstack, pc, np, havekids, panicked>>

allocproc_found(p) ==
  LET s == scan[p] IN
  /\ On(p, "allocproc") /\ s \in Slot /\ plock[s] = None
  /\ state[s] = "UNUSED" /\ nextpid <= MAXPID
  /\ nextpid' = nextpid + 1
  /\ pid' = [pid EXCEPT ![s] = nextpid]
  /\ state' = [state EXCEPT ![s] = "USED"]
  /\ plock' = [plock EXCEPT ![s] = p]
  /\ np' = [np EXCEPT ![p] = s]
  /\ Goto(p, "fork_copy")
  /\ UNCHANGED <<chan, killed, parent, wait_lock, onstack, scan, havekids, panicked>>

\* The table is full (or the bound on pids is reached): fork returns -1.
allocproc_full(p) ==
  /\ On(p, "allocproc")
  /\ scan[p] = NPROC + 1 \/ nextpid > MAXPID
  /\ Goto(p, "usertrap")
  /\ UNCHANGED <<fields, locks, nextpid, onstack, locals, panicked>>

\* kalloc() failed in allocproc(), or uvmcopy() did: fork returns -1.
fork_nomem(p) ==
  /\ On(p, "fork_copy")
  /\ freeproc(np[p])
  /\ plock' = [plock EXCEPT ![np[p]] = None]
  /\ np' = [np EXCEPT ![p] = None]
  /\ Goto(p, "usertrap")
  /\ UNCHANGED <<wait_lock, nextpid, onstack, scan, havekids, panicked>>

\* The child has its memory and files: release(&np->lock).
fork_copy(p) ==
  /\ On(p, "fork_copy")
  /\ plock' = [plock EXCEPT ![np[p]] = None]
  /\ Goto(p, "fork_parent")
  /\ UNCHANGED <<fields, wait_lock, nextpid, onstack, locals, panicked>>

fork_parent(p) ==
  /\ On(p, "fork_parent") /\ wait_lock = None
  /\ parent' = [parent EXCEPT ![np[p]] = p]
  /\ Goto(p, "fork_run")
  /\ UNCHANGED <<state, chan, killed, pid, locks, nextpid, onstack, locals, panicked>>

\* The child starts in forkret, on its way to user space.
fork_run(p) ==
  /\ On(p, "fork_run") /\ plock[np[p]] = None
  /\ state' = [state EXCEPT ![np[p]] = "RUNNABLE"]
  /\ pc' = [pc EXCEPT ![p] = "usertrap", ![np[p]] = "user"]
  /\ np' = [np EXCEPT ![p] = None]
  /\ UNCHANGED <<chan, killed, pid, parent, locks, nextpid, onstack, scan,
                 havekids, panicked>>

-----------------------------------------------------------------------------
(* exit(); closing the files and the directory changes nothing here.       *)

exit(p) ==
  /\ On(p, "exit")
  /\ panicked' = IF p = initproc THEN "init exiting" ELSE "no"
  /\ p # initproc => wait_lock = None
  /\ wait_lock' = p
  /\ Goto(p, "reparent")
  /\ UNCHANGED <<fields, plock, nextpid, onstack, locals>>

MutantReparentLive(p) ==            \* leaves the zombies behind
  /\ On(p, "reparent")
  /\ parent' = [q \in Slot |-> IF parent[q] = p /\ state[q] # "ZOMBIE"
                               THEN initproc ELSE parent[q]]
  /\ state' = IF \E q \in Slot : parent[q] = p THEN Wakeup(initproc) ELSE state
  /\ Goto(p, "exit_wakeup")
  /\ UNCHANGED <<chan, killed, pid, locks, nextpid, onstack, locals, panicked>>

MutantReparentNoWakeup(p) ==
  /\ On(p, "reparent")
  /\ parent' = [q \in Slot |-> IF parent[q] = p THEN initproc ELSE parent[q]]
  /\ Goto(p, "exit_wakeup")
  /\ UNCHANGED <<state, chan, killed, pid, locks, nextpid, onstack, locals, panicked>>

\* reparent(p), with the wakeup(initproc) it makes for each child
reparent(p) ==
  /\ On(p, "reparent")
  /\ parent' = [q \in Slot |-> IF parent[q] = p THEN initproc ELSE parent[q]]
  /\ state' = IF \E q \in Slot : parent[q] = p THEN Wakeup(initproc) ELSE state
  /\ Goto(p, "exit_wakeup")
  /\ UNCHANGED <<chan, killed, pid, locks, nextpid, onstack, locals, panicked>>

\* wakeup(p->parent)
exit_wakeup(p) ==
  /\ On(p, "exit_wakeup")
  /\ state' = Wakeup(parent[p])
  /\ Goto(p, "exit_zombie")
  /\ UNCHANGED <<chan, killed, pid, parent, locks, nextpid, onstack, locals, panicked>>

\* acquire(&p->lock), and only then release(&wait_lock)
exit_zombie(p) ==
  /\ On(p, "exit_zombie") /\ plock[p] = None
  /\ plock' = [plock EXCEPT ![p] = p]
  /\ state' = [state EXCEPT ![p] = "ZOMBIE"]
  /\ wait_lock' = None
  /\ Goto(p, "exit_sched")
  /\ UNCHANGED <<chan, killed, pid, parent, nextpid, onstack, locals, panicked>>

\* sched(): swtch() away from p's stack; scheduler() releases p->lock.
exit_sched(p) ==
  /\ panicked = "no" /\ pc[p] = "exit_sched"
  /\ plock' = [plock EXCEPT ![p] = None]
  /\ onstack' = [onstack EXCEPT ![p] = FALSE]
  /\ Goto(p, "dead")
  /\ UNCHANGED <<fields, wait_lock, nextpid, locals, panicked>>

-----------------------------------------------------------------------------
(* wait()                                                                  *)

wait(p) ==
  /\ On(p, "wait") /\ wait_lock = None
  /\ wait_lock' = p
  /\ havekids' = [havekids EXCEPT ![p] = FALSE]
  /\ scan' = [scan EXCEPT ![p] = 1]
  /\ Goto(p, "wait_scan")
  /\ UNCHANGED <<fields, plock, nextpid, onstack, np, panicked>>

MutantWaitNext(p) ==                \* havekids is about the last slot only
  LET pp == scan[p] IN
  /\ On(p, "wait_scan") /\ pp \in Slot
  /\ parent[pp] = p => plock[pp] = None /\ state[pp] # "ZOMBIE"
  /\ havekids' = [havekids EXCEPT ![p] = parent[pp] = p]
  /\ scan' = [scan EXCEPT ![p] = @ + 1]
  /\ UNCHANGED <<fields, locks, nextpid, onstack, pc, np, panicked>>

\* One turn of the loop that frees nothing.
wait_next(p) ==
  LET pp == scan[p] IN
  /\ On(p, "wait_scan") /\ pp \in Slot
  /\ parent[pp] = p => plock[pp] = None /\ state[pp] # "ZOMBIE"
  /\ havekids' = [havekids EXCEPT ![p] = @ \/ parent[pp] = p]
  /\ scan' = [scan EXCEPT ![p] = @ + 1]
  /\ UNCHANGED <<fields, locks, nextpid, onstack, pc, np, panicked>>

\* An exited child that has left its stack (pp->lock is free).
wait_reap(p) ==
  LET pp == scan[p] IN
  /\ On(p, "wait_scan") /\ pp \in Slot
  /\ parent[pp] = p /\ plock[pp] = None /\ state[pp] = "ZOMBIE"
  /\ freeproc(pp)
  /\ wait_lock' = None
  /\ Goto(p, "usertrap")
  /\ UNCHANGED <<plock, nextpid, onstack, locals, panicked>>

\* copyout() of its status fails: wait returns -1, the child stays.
\* /init passes address 0.
wait_badaddr(p) ==
  LET pp == scan[p] IN
  /\ On(p, "wait_scan") /\ pp \in Slot /\ p # initproc
  /\ parent[pp] = p /\ plock[pp] = None /\ state[pp] = "ZOMBIE"
  /\ wait_lock' = None
  /\ Goto(p, "usertrap")
  /\ UNCHANGED <<fields, plock, nextpid, onstack, locals, panicked>>

\* No child, or killed(p): return -1.  Otherwise on to sleep().
wait_nokids(p) ==
  /\ On(p, "wait_scan") /\ scan[p] = NPROC + 1 /\ plock[p] = None
  /\ ~havekids[p] \/ killed[p]
  /\ wait_lock' = None
  /\ Goto(p, "usertrap")
  /\ UNCHANGED <<fields, plock, nextpid, onstack, locals, panicked>>

wait_kids(p) ==
  /\ On(p, "wait_scan") /\ scan[p] = NPROC + 1 /\ plock[p] = None
  /\ havekids[p] /\ ~killed[p]
  /\ Goto(p, "wait_sleep")
  /\ UNCHANGED <<fields, locks, nextpid, onstack, locals, panicked>>

\* sleep(p, &wait_lock): releases wait_lock only with p->lock held.
wait_sleep(p) ==
  /\ On(p, "wait_sleep") /\ plock[p] = None
  /\ chan' = [chan EXCEPT ![p] = p]
  /\ state' = [state EXCEPT ![p] = "SLEEPING"]
  /\ wait_lock' = None
  /\ Goto(p, "wait_woken")
  /\ UNCHANGED <<killed, pid, parent, plock, nextpid, onstack, locals, panicked>>

\* Back from sched(): p->chan = 0, then acquire(&wait_lock) and scan again.
wait_woken(p) ==
  /\ On(p, "wait_woken")
  /\ chan' = [chan EXCEPT ![p] = None]
  /\ Goto(p, "wait")
  /\ UNCHANGED <<state, killed, pid, parent, locks, nextpid, onstack, locals, panicked>>

-----------------------------------------------------------------------------
\* kill(i): the first slot with that pid.
kill(p, i) ==
  /\ On(p, "user") /\ plock[p] = None /\ ~killed[p]
  /\ \E q \in Slot :
       /\ pid[q] = i /\ plock[q] = None
       /\ \A r \in 1 .. q - 1 : pid[r] # i
       /\ killed' = [killed EXCEPT ![q] = TRUE]
       /\ state' = [state EXCEPT ![q] = IF @ = "SLEEPING" THEN "RUNNABLE" ELSE @]
  /\ Goto(p, "usertrap")
  /\ UNCHANGED <<chan, pid, parent, locks, nextpid, onstack, locals, panicked>>

-----------------------------------------------------------------------------
\* After userinit(): /init alone, with pid 1.
Init ==
  /\ state = [q \in Slot |-> IF q = initproc THEN "RUNNABLE" ELSE "UNUSED"]
  /\ pid = [q \in Slot |-> IF q = initproc THEN 1 ELSE 0]
  /\ chan = [q \in Slot |-> None] /\ parent = [q \in Slot |-> None]
  /\ killed = [q \in Slot |-> FALSE]
  /\ plock = [q \in Slot |-> None] /\ wait_lock = None
  /\ nextpid = 2
  /\ onstack = [q \in Slot |-> FALSE]
  /\ pc = [q \in Slot |-> IF q = initproc THEN "user" ELSE "dead"]
  /\ scan = [q \in Slot |-> 1] /\ np = [q \in Slot |-> None]
  /\ havekids = [q \in Slot |-> FALSE]
  /\ panicked = "no"

Fork(p) ==
  \/ allocproc_next(p) \/ allocproc_found(p) \/ allocproc_full(p) \/ fork_nomem(p)
  \/ fork_copy(p) \/ fork_parent(p) \/ fork_run(p)
Exit(p) == exit(p) \/ reparent(p) \/ exit_wakeup(p) \/ exit_zombie(p) \/ exit_sched(p)
Wait(p) ==
  \/ wait(p) \/ wait_next(p) \/ wait_reap(p) \/ wait_badaddr(p) \/ wait_nokids(p)
  \/ wait_kids(p) \/ wait_sleep(p) \/ wait_woken(p)

Next ==
  \/ \E p \in Slot : \/ Schedule(p) \/ Syscall(p) \/ SysExit(p) \/ Interrupt(p)
                     \/ usertrap(p) \/ Fork(p) \/ Exit(p) \/ Wait(p)
  \/ \E p \in Slot, i \in KillArgs : kill(p, i)

Spec == Init /\ [][Next]_vars

-----------------------------------------------------------------------------
TypeOK ==
  /\ state \in [Slot -> State] /\ chan \in [Slot -> Slot \cup {None}]
  /\ killed \in [Slot -> BOOLEAN] /\ pid \in [Slot -> 0 .. MAXPID]
  /\ parent \in [Slot -> Slot \cup {None}]
  /\ plock \in [Slot -> Slot \cup {None}] /\ wait_lock \in Slot \cup {None}
  /\ nextpid \in 1 .. MAXPID + 1 /\ onstack \in [Slot -> BOOLEAN]
  /\ pc \in [Slot -> PC] /\ scan \in [Slot -> 1 .. NPROC + 1]
  /\ np \in [Slot -> Slot \cup {None}] /\ havekids \in [Slot -> BOOLEAN]
  /\ panicked \in {"no", "init exiting"}

Alive(p) == state[p] \in {"RUNNABLE", "RUNNING", "SLEEPING"}

\* The process tree stays a tree of live parents: whatever the order of exits,
\* forks and failures, p->parent never dangles (a zombie has handed its
\* children to init), and only init and a child still in fork() have none.
ParentsAlive ==
  \A q \in Slot :
    IF parent[q] = None
    THEN q = initproc \/ state[q] \in {"UNUSED", "USED"}
    ELSE state[q] # "UNUSED" /\ Alive(parent[q])

\* wait() frees a child only after the child's last swtch(): no slot is free,
\* or handed out again, while a CPU is still on its kernel stack.
FreeSlotOffStack ==
  \A q \in Slot : state[q] \in {"UNUSED", "USED"} => ~onstack[q]

\* Types, the process tree, and the kernel stacks.
ProcInv == TypeOK /\ ParentsAlive /\ FreeSlotOffStack

\* exit() calls wakeup(parent) before the child is a ZOMBIE; still no parent
\* sleeps in wait() while it has a zombie to collect, adopted ones included.
NoZombieMissed ==
  \A q \in Slot : state[q] = "ZOMBIE" => state[parent[q]] # "SLEEPING"

\* wait() gives up for want of children only if there are none, although
\* children are adopted, forked and reaped while it scans the table.
NoKidsIsTrue ==
  \A p \in Slot :
    pc[p] = "wait_scan" /\ scan[p] = NPROC + 1 /\ ~havekids[p]
      => \A q \in Slot : parent[q] # p
=============================================================================
