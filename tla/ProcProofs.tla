----------------------------- MODULE ProcProofs -----------------------------
(* The process table stays sound, for every size of it and whatever pids   *)
(* programs pass to kill().                                                *)
EXTENDS Proc, TLAPS

\* Where a thread holds wait_lock; where it has a child half made; where it is
\* past exit()'s test for init; where its slot is about to be given up.
WLocked == {"reparent", "exit_wakeup", "exit_zombie", "wait_scan", "wait_sleep"}
Forking == {"fork_copy", "fork_parent", "fork_run"}
Exiting == {"reparent", "exit_wakeup", "exit_zombie"}
Over == {"exit_sched", "dead"}

\* A slot's thread agrees with its state and, once it is over, with its stack.
ThreadInv(p) ==
  /\ Alive(p) <=> pc[p] \notin Over
  /\ state[p] = "SLEEPING" => chan[p] = p
  /\ pc[p] = "exit_sched" => state[p] = "ZOMBIE" /\ plock[p] = p
  /\ pc[p] = "dead" => ~onstack[p]
  /\ p = initproc => pc[p] \notin Exiting \cup Over

\* wait_lock is held exactly where the code means to hold it.
LockInv(p) == pc[p] \in WLocked <=> wait_lock = p

\* exit(), under wait_lock: no children are left, then the parent is awake.
ExitingInv(p) ==
  /\ pc[p] \in {"exit_wakeup", "exit_zombie"} => \A q \in Slot : parent[q] # p
  /\ pc[p] = "exit_zombie" => state[parent[p]] # "SLEEPING"

\* wait(), under wait_lock: the slots scanned hold no zombie of p's, and any
\* child among them has been noticed.
ScanningInv(p) ==
  /\ pc[p] = "wait_sleep" => scan[p] = NPROC + 1
  /\ pc[p] \in {"wait_scan", "wait_sleep"} =>
       \A q \in Slot : parent[q] = p /\ q < scan[p] => state[q] # "ZOMBIE" /\ havekids[p]

\* The child that fork() is making belongs to one caller only, which becomes
\* its parent one step before it can run.
ForkInv(p) ==
  pc[p] \in Forking =>
    /\ np[p] \in Slot /\ state[np[p]] = "USED"
    /\ parent[np[p]] = IF pc[p] = "fork_run" THEN p ELSE None
    /\ \A q \in Slot \ {p} : pc[q] \in Forking => np[q] # np[p]

Inner == \A p \in Slot : ThreadInv(p) /\ LockInv(p) /\ ExitingInv(p) /\ ScanningInv(p) /\ ForkInv(p)

\* A panic leaves the table as it was.
IInv ==
  /\ TypeOK /\ ParentsAlive /\ FreeSlotOffStack /\ NoZombieMissed /\ NoKidsIsTrue
  /\ panicked = "no" => Inner

-----------------------------------------------------------------------------
\* What no step but the panic has to show; the rest of IInv follows.
LEMMA Conclude ==
  ASSUME TypeOK', ParentsAlive', NoZombieMissed',
         \A q \in Slot : ThreadInv(q)', \A q \in Slot : LockInv(q)', \A q \in Slot : ExitingInv(q)',
         \A q \in Slot : ScanningInv(q)', \A q \in Slot : ForkInv(q)'
  PROVE  IInv'
<1>1. FreeSlotOffStack'
  BY Zenon DEF FreeSlotOffStack, ThreadInv, Alive, Over
<1>2. NoKidsIsTrue'
  BY ProcAssumption DEF NoKidsIsTrue, ScanningInv, Slot
<1> QED
  BY <1>1, <1>2, Zenon DEF IInv, Inner

\* Only one thread at a time is where wait_lock is held.
LEMMA OneHolder ==
  ASSUME Inner, NEW p \in Slot
  PROVE  /\ None \notin Slot
         /\ pc[p] \in WLocked => \A q \in Slot \ {p} : pc[q] \notin WLocked
         /\ wait_lock = None => \A q \in Slot : pc[q] \notin WLocked
  BY DEF Inner, LockInv, None, Slot

\* p's thread goes from one place to another, both outside fork(), exit() and
\* wait_lock; nothing else changes but its loop variable.
Plain == PC \ (WLocked \cup Forking \cup Over)

LEMMA PlainStep ==
  ASSUME IInv, TypeOK', panicked = "no", NEW p \in Slot, pc[p] \in Plain, pc'[p] \in Plain,
         \A q \in Slot \ {p} : pc'[q] = pc[q] /\ scan'[q] = scan[q],
         state' = state, chan' = chan, parent' = parent, plock' = plock, wait_lock' = wait_lock,
         onstack' = onstack, np' = np, havekids' = havekids
  PROVE  IInv'
<1>1. ParentsAlive' /\ NoZombieMissed'
  BY Zenon DEF IInv, ParentsAlive, NoZombieMissed, Alive
<1>2. \A q \in Slot : ThreadInv(q)'
  BY DEF IInv, Inner, ThreadInv, Plain, Over, Alive, Exiting, WLocked
<1>3. \A q \in Slot : LockInv(q)'
  BY Zenon DEF IInv, Inner, LockInv, Plain
<1>4. \A q \in Slot : ExitingInv(q)'
  BY Zenon DEF IInv, Inner, ExitingInv, Plain, WLocked
<1>5. \A q \in Slot : ScanningInv(q)'
  BY Zenon DEF IInv, Inner, ScanningInv, Plain, WLocked
<1>6. \A q \in Slot : ForkInv(q)'
  BY DEF IInv, Inner, ForkInv, Plain
<1> QED
  BY <1>1, <1>2, <1>3, <1>4, <1>5, <1>6, Conclude, Zenon

\* The traps, and the loop of allocproc(), as such steps.
Roams(p) ==
  /\ pc' \in [Slot -> PC] /\ pc'[p] \in Plain /\ \A q \in Slot \ {p} : pc'[q] = pc[q]
  /\ scan' \in [Slot -> 1 .. NPROC + 1] /\ \A q \in Slot \ {p} : scan'[q] = scan[q]
  /\ UNCHANGED <<fields, locks, nextpid, onstack, np, havekids, panicked>>

LEMMA PlainInv ==
  ASSUME IInv, NEW p \in Slot,
         \/ Syscall(p) \/ SysExit(p) \/ Interrupt(p) \/ usertrap(p)
         \/ allocproc_next(p) \/ allocproc_full(p)
  PROVE  IInv'
<1>0. TypeOK /\ pc[p] \in Plain /\ panicked = "no"
  BY Zenon DEF IInv, Syscall, SysExit, Interrupt, usertrap, allocproc_next, allocproc_full, On,
         Plain, PC, WLocked, Forking, Over
<1>1. \A l \in Plain : pc' = [pc EXCEPT ![p] = l] =>
        pc' \in [Slot -> PC] /\ pc'[p] \in Plain /\ \A q \in Slot \ {p} : pc'[q] = pc[q]
  BY <1>0 DEF TypeOK, Plain
<1>2. {"user", "usertrap", "allocproc", "wait", "exit"} \subseteq Plain
  BY Zenon DEF Plain, PC, WLocked, Forking, Over
<1>3. ASSUME Syscall(p) PROVE Roams(p)
  <2>1. scan' = [scan EXCEPT ![p] = 1] /\ 1 \in 1 .. NPROC + 1
    BY <1>3, ProcAssumption DEF Syscall
  <2>2. \E l \in Plain : pc' = [pc EXCEPT ![p] = l]
    BY <1>2, <1>3, Zenon DEF Syscall, exitOr, Goto
  <2> QED
    BY <1>0, <1>1, <1>3, <2>1, <2>2, Zenon DEF Roams, TypeOK, Syscall
<1>4. ASSUME SysExit(p) \/ Interrupt(p) \/ usertrap(p) \/ allocproc_full(p) PROVE Roams(p)
  <2>1. \E l \in Plain : pc' = [pc EXCEPT ![p] = l]
    BY <1>2, <1>4, Zenon DEF SysExit, Interrupt, usertrap, allocproc_full, exitOr, Goto
  <2> QED
    BY <1>0, <1>1, <1>4, <2>1, Zenon
       DEF Roams, TypeOK, SysExit, Interrupt, usertrap, allocproc_full, fields, locks, locals
<1>5. ASSUME allocproc_next(p) PROVE Roams(p)
  <2>1. scan[p] + 1 \in 1 .. NPROC + 1 /\ scan' = [scan EXCEPT ![p] = scan[p] + 1] /\ pc' = pc
    BY <1>5, ProcAssumption DEF allocproc_next, Slot
  <2> QED
    BY <1>0, <1>5, <2>1 DEF Roams, TypeOK, allocproc_next, fields, locks
<1>6. Roams(p)
  BY <1>3, <1>4, <1>5, Zenon
<1>7. TypeOK'
  BY <1>0, <1>6, Zenon DEF Roams, TypeOK, fields, locks
<1> QED
  BY <1>0, <1>6, <1>7, PlainStep, Zenon DEF Roams, fields, locks

-----------------------------------------------------------------------------
\* Sleepers may have become runnable; no other state has changed.
Stirred ==
  /\ state' \in [Slot -> State]
  /\ \A q \in Slot : state'[q] = state[q] \/ (state[q] = "SLEEPING" /\ state'[q] = "RUNNABLE")

LEMMA StirredFacts ==
  ASSUME TypeOK, Stirred, NEW q \in Slot
  PROVE  /\ Alive(q)' <=> Alive(q)
         /\ \A s \in {"UNUSED", "USED", "RUNNING", "ZOMBIE"} : state'[q] = s <=> state[q] = s
         /\ state'[q] = "SLEEPING" => state[q] = "SLEEPING"
  BY Zenon DEF Stirred, Alive

\* A zombie has a parent: init never exits.
LEMMA ZombieParent ==
  ASSUME TypeOK, ParentsAlive, Inner, NEW q \in Slot, state[q] = "ZOMBIE"
  PROVE  parent[q] \in Slot
<1>1. q # initproc
  BY Zenon DEF Inner, ThreadInv, Alive
<1> QED
  BY <1>1, Zenon DEF TypeOK, ParentsAlive

LEMMA StirredTable ==
  ASSUME TypeOK, ParentsAlive, NoZombieMissed, Inner, Stirred, parent' = parent
  PROVE  ParentsAlive' /\ NoZombieMissed'
<1>1. ParentsAlive'
  BY StirredFacts, Zenon DEF TypeOK, ParentsAlive
<1>2. NoZombieMissed'
  <2> SUFFICES ASSUME NEW q \in Slot, state'[q] = "ZOMBIE" PROVE state'[parent[q]] # "SLEEPING"
    BY Zenon DEF NoZombieMissed
  <2>1. state[q] = "ZOMBIE" /\ parent[q] \in Slot
    BY StirredFacts, ZombieParent, Zenon
  <2> QED
    BY <2>1, StirredFacts, Zenon DEF NoZombieMissed
<1> QED
  BY <1>1, <1>2, Zenon

\* wakeup(c) does that; and c, which sleeps on its own address if it sleeps, is
\* awake afterwards.
LEMMA WakeupEffect ==
  ASSUME TypeOK, Inner, NEW c \in Slot, state' = Wakeup(c)
  PROVE  Stirred /\ state'[c] # "SLEEPING"
<1>1. state \in [Slot -> State] /\ (state[c] = "SLEEPING" => chan[c] = c)
  BY Zenon DEF TypeOK, Inner, ThreadInv
<1>2. \A q \in Slot : state'[q] = IF state[q] = "SLEEPING" /\ chan[q] = c THEN "RUNNABLE" ELSE state[q]
  BY Zenon DEF Wakeup
<1>3. state' \in [Slot -> State]
  BY <1>1, Zenon DEF Wakeup, State
<1> QED
  BY <1>1, <1>2, <1>3, Zenon DEF Stirred

LEMMA ScheduleStep == ASSUME IInv, NEW p \in Slot, Schedule(p) PROVE IInv'
<1>0. TypeOK /\ ParentsAlive /\ NoZombieMissed /\ Inner
  BY Zenon DEF IInv, Schedule, On
<1>1. None \notin Slot
  BY <1>0, OneHolder, Zenon
<1>2. TypeOK'
  BY <1>0, Zenon DEF TypeOK, Schedule, locks, locals, State
<1>3. ParentsAlive'
  BY <1>0, <1>1 DEF ParentsAlive, Schedule, Alive
<1>4. NoZombieMissed'
  BY <1>0 DEF NoZombieMissed, Schedule
<1>5. \A q \in Slot : ThreadInv(q)'
  BY <1>0 DEF Inner, ThreadInv, Schedule, locks, Alive, Over
<1>6. \A q \in Slot : LockInv(q)'
  BY <1>0, <1>1, Zenon DEF Inner, LockInv, Schedule, locks
<1>7. \A q \in Slot : ExitingInv(q)'
  BY <1>0, <1>1 DEF Inner, ExitingInv, Schedule
<1>8. \A q \in Slot : ScanningInv(q)'
  BY <1>0, <1>1 DEF Inner, ScanningInv, Schedule, locals
<1>9. \A q \in Slot : ForkInv(q)'
  BY <1>0 DEF Inner, ForkInv, Schedule, locals
<1> QED
  BY <1>2, <1>3, <1>4, <1>5, <1>6, <1>7, <1>8, <1>9, Conclude, Zenon

LEMMA AllocprocFoundStep == ASSUME IInv, NEW p \in Slot, allocproc_found(p) PROVE IInv'
<1>0. TypeOK /\ ParentsAlive /\ NoZombieMissed /\ Inner
  BY Zenon DEF IInv, allocproc_found, On
<1>1. None \notin Slot
  BY <1>0, OneHolder, Zenon
<1>2. TypeOK'
  <2>a. scan[p] \in Slot /\ nextpid <= MAXPID /\ nextpid \in 1 .. MAXPID + 1
    BY <1>0, Zenon DEF allocproc_found, TypeOK
  <2>1. nextpid \in 0 .. MAXPID /\ nextpid + 1 \in 1 .. MAXPID + 1
    BY <2>a, ProcAssumption
  <2> QED
    BY <1>0, <2>a, <2>1, Zenon DEF TypeOK, allocproc_found, Goto, PC, State
<1>3. ParentsAlive'
  BY <1>0, <1>1 DEF ParentsAlive, allocproc_found, Alive
<1>4. NoZombieMissed'
  BY <1>0 DEF NoZombieMissed, allocproc_found
<1>5. \A q \in Slot : ThreadInv(q)'
  BY <1>0 DEF Inner, ThreadInv, allocproc_found, Goto, On, Alive, Over, Exiting
<1>6. \A q \in Slot : LockInv(q)'
  BY <1>0, <1>1 DEF Inner, LockInv, allocproc_found, Goto, On, WLocked
<1>7. \A q \in Slot : ExitingInv(q)'
  BY <1>0, <1>1 DEF Inner, ExitingInv, allocproc_found, Goto
<1>8. \A q \in Slot : ScanningInv(q)'
  BY <1>0, <1>1 DEF Inner, ScanningInv, allocproc_found, Goto
<1>9. \A q \in Slot : ForkInv(q)'
  <2>1. /\ scan[p] \in Slot /\ parent[scan[p]] = None /\ np'[p] = scan[p] /\ state'[scan[p]] = "USED"
        /\ \A q \in Slot : pc[q] \in Forking => np[q] # scan[p]
    BY <1>0, Zenon DEF allocproc_found, TypeOK, ParentsAlive, Inner, ForkInv
  <2> QED
    BY <1>0, <2>1 DEF Inner, ForkInv, allocproc_found, On, Goto
<1> QED
  BY <1>2, <1>3, <1>4, <1>5, <1>6, <1>7, <1>8, <1>9, Conclude, Zenon

LEMMA ForkNomemStep == ASSUME IInv, NEW p \in Slot, fork_nomem(p) PROVE IInv'
<1>0. TypeOK /\ ParentsAlive /\ NoZombieMissed /\ Inner
  BY Zenon DEF IInv, fork_nomem, On
<1>1. None \notin Slot
  BY <1>0, OneHolder, Zenon
<1>2. TypeOK'
  <2>1. np[p] \in Slot /\ 0 \in 0 .. MAXPID
    BY <1>0, ProcAssumption DEF fork_nomem, On, Inner, ForkInv, Forking
  <2> QED
    BY <1>0, <2>1, Zenon DEF TypeOK, fork_nomem, freeproc, Goto, PC, State
<1>3. ParentsAlive'
  BY <1>0, <1>1 DEF ParentsAlive, Inner, ForkInv, fork_nomem, freeproc, On, Alive, Forking
<1>4. NoZombieMissed'
  BY <1>0 DEF TypeOK, NoZombieMissed, fork_nomem, freeproc, On
<1>5. \A q \in Slot : ThreadInv(q)'
  BY <1>0
     DEF Inner, ThreadInv, ForkInv, fork_nomem, freeproc, Goto, On, Alive, Over, Forking,
         Exiting
<1>6. \A q \in Slot : LockInv(q)'
  BY <1>0, <1>1 DEF Inner, LockInv, fork_nomem, Goto, On, WLocked
<1>7. \A q \in Slot : ExitingInv(q)'
  <2>1. np[p] \in Slot /\ pc[np[p]] = "dead"
    BY <1>0, Zenon DEF fork_nomem, On, Inner, ForkInv, Forking, ThreadInv, Alive, Over
  <2> QED
    BY <1>0, <1>1, <2>1 DEF Inner, ExitingInv, fork_nomem, freeproc, Goto
<1>8. \A q \in Slot : ScanningInv(q)'
  <2>1. np[p] \in Slot
    BY <1>0, Zenon DEF fork_nomem, On, Inner, ForkInv, Forking
  <2> QED
    BY <1>0, <1>1, <2>1 DEF Inner, ScanningInv, fork_nomem, freeproc, Goto
<1>9. \A q \in Slot : ForkInv(q)'
  BY <1>0 DEF TypeOK, Inner, ForkInv, fork_nomem, freeproc, Goto, On, Forking
<1> QED
  BY <1>2, <1>3, <1>4, <1>5, <1>6, <1>7, <1>8, <1>9, Conclude, Zenon

LEMMA ForkCopyStep == ASSUME IInv, NEW p \in Slot, fork_copy(p) PROVE IInv'
<1>0. TypeOK /\ ParentsAlive /\ NoZombieMissed /\ Inner
  BY Zenon DEF IInv, fork_copy, On
<1>1. None \notin Slot
  BY <1>0, OneHolder, Zenon
<1>2. TypeOK'
  BY <1>0, Zenon DEF TypeOK, fork_copy, Goto, fields, locals, PC
<1>3. ParentsAlive'
  BY <1>0, <1>1, Zenon DEF ParentsAlive, fork_copy, fields, Alive
<1>4. NoZombieMissed'
  BY <1>0, Zenon DEF NoZombieMissed, fork_copy, fields
<1>5. \A q \in Slot : ThreadInv(q)'
  BY <1>0
     DEF Inner, ThreadInv, ForkInv, fork_copy, Goto, On, fields, Alive, Over, Forking, Exiting
<1>6. \A q \in Slot : LockInv(q)'
  BY <1>0, <1>1 DEF Inner, LockInv, fork_copy, Goto, On, WLocked
<1>7. \A q \in Slot : ExitingInv(q)'
  BY <1>0, <1>1 DEF Inner, ExitingInv, fork_copy, Goto, fields
<1>8. \A q \in Slot : ScanningInv(q)'
  BY <1>0, <1>1 DEF Inner, ScanningInv, fork_copy, Goto, fields, locals
<1>9. \A q \in Slot : ForkInv(q)'
  BY <1>0 DEF Inner, ForkInv, fork_copy, Goto, On, fields, locals, Forking
<1> QED
  BY <1>2, <1>3, <1>4, <1>5, <1>6, <1>7, <1>8, <1>9, Conclude, Zenon

LEMMA ForkParentStep == ASSUME IInv, NEW p \in Slot, fork_parent(p) PROVE IInv'
<1>0. TypeOK /\ ParentsAlive /\ NoZombieMissed /\ Inner
  BY Zenon DEF IInv, fork_parent, On
<1>1. None \notin Slot /\ \A q \in Slot : pc[q] \notin WLocked
  BY <1>0, OneHolder, Zenon DEF fork_parent
<1>2. TypeOK'
  BY <1>0, Zenon DEF TypeOK, fork_parent, Goto, locks, locals, PC
<1>3. ParentsAlive'
  BY <1>0, <1>1 DEF ParentsAlive, Inner, ForkInv, fork_parent, On, Alive, Forking
<1>4. NoZombieMissed'
  BY <1>0 DEF NoZombieMissed, fork_parent, On
<1>5. \A q \in Slot : ThreadInv(q)'
  BY <1>0 DEF Inner, ThreadInv, fork_parent, Goto, On, locks, Alive, Over, Exiting
<1>6. \A q \in Slot : LockInv(q)'
  BY <1>0, <1>1 DEF LockInv, fork_parent, Goto, locks, WLocked
<1>7. \A q \in Slot : ExitingInv(q)'
  BY <1>0, <1>1 DEF ExitingInv, fork_parent, Goto, WLocked
<1>8. \A q \in Slot : ScanningInv(q)'
  BY <1>0, <1>1 DEF ScanningInv, fork_parent, Goto, WLocked
<1>9. \A q \in Slot : ForkInv(q)'
  BY <1>0 DEF TypeOK, Inner, ForkInv, fork_parent, Goto, On, locals, Forking
<1> QED
  BY <1>2, <1>3, <1>4, <1>5, <1>6, <1>7, <1>8, <1>9, Conclude, Zenon

LEMMA ForkRunStep == ASSUME IInv, NEW p \in Slot, fork_run(p) PROVE IInv'
<1>0. TypeOK /\ ParentsAlive /\ NoZombieMissed /\ Inner
  BY Zenon DEF IInv, fork_run, On
<1>1. None \notin Slot
  BY <1>0, OneHolder, Zenon
<1>2. TypeOK'
  BY <1>0, Zenon DEF TypeOK, fork_run, locks, PC, State
<1>3. ParentsAlive'
  <2>1. np[p] \in Slot /\ np[p] # p /\ parent[np[p]] = p /\ state[np[p]] = "USED" /\ pc[np[p]] = "dead"
    BY <1>0, Zenon DEF fork_run, On, Inner, ForkInv, Forking, ThreadInv, Alive, Over
  <2> QED
    BY <1>0, <1>1, <2>1 DEF ParentsAlive, fork_run, Alive
<1>4. NoZombieMissed'
  BY <1>0 DEF NoZombieMissed, fork_run
<1>5. \A q \in Slot : ThreadInv(q)'
  BY <1>0 DEF TypeOK, Inner, ThreadInv, fork_run, On, locks, Alive, Over, Exiting
<1>6. \A q \in Slot : LockInv(q)'
  <2>1. np[p] \in Slot /\ np[p] # p /\ parent[np[p]] = p /\ state[np[p]] = "USED" /\ pc[np[p]] = "dead"
    BY <1>0, Zenon DEF fork_run, On, Inner, ForkInv, Forking, ThreadInv, Alive, Over
  <2> QED
    BY <1>0, <2>1, Zenon DEF TypeOK, Inner, LockInv, fork_run, On, WLocked, locks
<1>7. \A q \in Slot : ExitingInv(q)'
  BY <1>0, <1>1 DEF TypeOK, Inner, ExitingInv, fork_run, On
<1>8. \A q \in Slot : ScanningInv(q)'
  BY <1>0, <1>1, Zenon DEF TypeOK, Inner, ScanningInv, fork_run
<1>9. \A q \in Slot : ForkInv(q)'
  BY <1>0 DEF TypeOK, Inner, ForkInv, fork_run, On, Forking
<1> QED
  BY <1>2, <1>3, <1>4, <1>5, <1>6, <1>7, <1>8, <1>9, Conclude, Zenon

LEMMA ExitStep == ASSUME IInv, NEW p \in Slot, exit(p) PROVE IInv'
<1> SUFFICES ASSUME p # initproc PROVE IInv'
  <2>1. ASSUME p = initproc PROVE IInv'
    <3>1. TypeOK /\ panicked' = "init exiting" /\ pc' = [pc EXCEPT ![p] = "reparent"]
      BY <2>1, Zenon DEF IInv, exit, Goto
    <3>2. TypeOK'
      BY <3>1, Zenon DEF TypeOK, exit, PC, fields, locals
    <3>3. ParentsAlive' /\ FreeSlotOffStack' /\ NoZombieMissed'
      BY Zenon DEF exit, IInv, ParentsAlive, FreeSlotOffStack, NoZombieMissed, Alive, fields
    <3>4. NoKidsIsTrue'
      BY <3>1, Zenon DEF exit, IInv, TypeOK, NoKidsIsTrue, fields, locals
    <3> QED
      BY <3>1, <3>2, <3>3, <3>4, Zenon DEF IInv
  <2> QED
    BY <2>1, Zenon
<1>0. TypeOK /\ ParentsAlive /\ NoZombieMissed /\ Inner
  BY Zenon DEF IInv, exit, On
<1>1. None \notin Slot /\ \A q \in Slot : pc[q] \notin WLocked
  BY <1>0, OneHolder, Zenon DEF exit
<1>2. TypeOK'
  BY <1>0, Zenon DEF TypeOK, exit, Goto, fields, locals, PC
<1>3. ParentsAlive'
  BY <1>0, <1>1, Zenon DEF ParentsAlive, exit, fields, Alive
<1>4. NoZombieMissed'
  BY <1>0, Zenon DEF NoZombieMissed, exit, fields
<1>5. \A q \in Slot : ThreadInv(q)'
  BY <1>0 DEF Inner, ThreadInv, exit, Goto, On, fields, Alive, Over
<1>6. \A q \in Slot : LockInv(q)'
  BY <1>0, <1>1, Zenon DEF TypeOK, LockInv, exit, Goto, WLocked
<1>7. \A q \in Slot : ExitingInv(q)'
  BY <1>0, <1>1 DEF ExitingInv, exit, Goto, WLocked
<1>8. \A q \in Slot : ScanningInv(q)'
  BY <1>0, <1>1 DEF ScanningInv, exit, Goto, WLocked
<1>9. \A q \in Slot : ForkInv(q)'
  BY <1>0 DEF Inner, ForkInv, exit, Goto, fields, locals, Forking
<1> QED
  BY <1>2, <1>3, <1>4, <1>5, <1>6, <1>7, <1>8, <1>9, Conclude, Zenon

LEMMA ReparentStep == ASSUME IInv, NEW p \in Slot, reparent(p) PROVE IInv'
<1>0. TypeOK /\ ParentsAlive /\ NoZombieMissed /\ Inner
  BY Zenon DEF IInv, reparent, On
<1>1. None \notin Slot /\ pc[p] \in WLocked /\ \A q \in Slot \ {p} : pc[q] \notin WLocked
  BY <1>0, OneHolder, Zenon DEF reparent, On, WLocked
<1>a. /\ initproc \in Slot /\ p # initproc
      /\ parent' \in [Slot -> Slot \cup {None}]
      /\ \A q \in Slot : parent'[q] = IF parent[q] = p THEN initproc ELSE parent[q]
  BY <1>0, ProcAssumption DEF reparent, On, TypeOK, Inner, ThreadInv, Exiting, initproc, Slot
<1>b. Stirred /\ \A q \in Slot : parent[q] = p => state'[initproc] # "SLEEPING"
  <2>1. CASE \E q \in Slot : parent[q] = p
    BY <1>0, <1>a, <2>1, WakeupEffect, Zenon DEF reparent
  <2>2. CASE ~ \E q \in Slot : parent[q] = p
    BY <1>0, <2>2, Zenon DEF reparent, TypeOK, Stirred
  <2> QED
    BY <2>1, <2>2, Zenon
<1>2. TypeOK'
  BY <1>0, <1>a, <1>b, Zenon DEF TypeOK, reparent, Goto, PC, locks, locals, Stirred
<1>3. ParentsAlive'
  <2>1. \A q \in Slot : /\ Alive(q)' <=> Alive(q)
                        /\ state'[q] = "UNUSED" <=> state[q] = "UNUSED"
                        /\ state'[q] = "USED" <=> state[q] = "USED"
    BY <1>0, <1>b, StirredFacts, Zenon
  <2>2. Alive(initproc) /\ initproc # None
    BY <1>0, <1>1, <1>a, Zenon DEF Inner, ThreadInv
  <2> SUFFICES ASSUME NEW q \in Slot
               PROVE  IF parent[q]' = None
                      THEN q = initproc \/ state'[q] \in {"UNUSED", "USED"}
                      ELSE state'[q] # "UNUSED" /\ Alive(parent[q])'
    BY Zenon DEF ParentsAlive
  <2>3. CASE parent[q] = p
    BY <1>0, <1>a, <1>1, <2>1, <2>2, <2>3 DEF ParentsAlive
  <2>4. CASE parent[q] # p
    BY <1>0, <1>a, <2>1, <2>4 DEF ParentsAlive
  <2> QED
    BY <2>3, <2>4, Zenon
<1>4. NoZombieMissed'
  <2> SUFFICES ASSUME NEW q \in Slot, state'[q] = "ZOMBIE" PROVE state'[parent'[q]] # "SLEEPING"
    BY Zenon DEF NoZombieMissed
  <2>1. state[q] = "ZOMBIE" /\ parent[q] \in Slot
    BY <1>0, <1>b, StirredFacts, ZombieParent, Zenon
  <2> QED
    BY <1>0, <1>a, <1>b, <2>1, StirredFacts DEF NoZombieMissed
<1>5. \A q \in Slot : ThreadInv(q)'
  BY <1>0, <1>b, StirredFacts DEF Inner, ThreadInv, reparent, Goto, On, Over, Exiting, locks
<1>6. \A q \in Slot : LockInv(q)'
  BY <1>0, <1>1 DEF Inner, LockInv, reparent, Goto, locks, WLocked
<1>7. \A q \in Slot : ExitingInv(q)'
  BY <1>0, <1>1, <1>a DEF ExitingInv, reparent, Goto, On, WLocked
<1>8. \A q \in Slot : ScanningInv(q)'
  BY <1>0, <1>1 DEF ScanningInv, reparent, Goto, On, WLocked
<1>9. \A q \in Slot : ForkInv(q)'
  BY <1>0, <1>1, <1>a, <1>b, StirredFacts
     DEF Inner, ForkInv, reparent, Goto, On, Forking, locals
<1> QED
  BY <1>2, <1>3, <1>4, <1>5, <1>6, <1>7, <1>8, <1>9, Conclude, Zenon

LEMMA ExitWakeupStep == ASSUME IInv, NEW p \in Slot, exit_wakeup(p) PROVE IInv'
<1>0. TypeOK /\ ParentsAlive /\ NoZombieMissed /\ Inner
  BY Zenon DEF IInv, exit_wakeup, On
<1>1. None \notin Slot /\ pc[p] \in WLocked /\ \A q \in Slot \ {p} : pc[q] \notin WLocked
  BY <1>0, OneHolder, Zenon DEF exit_wakeup, On, WLocked
<1>a. parent[p] \in Slot
  BY <1>0 DEF exit_wakeup, On, TypeOK, ParentsAlive, Inner, ThreadInv, Exiting
<1>b. Stirred /\ state'[parent[p]] # "SLEEPING"
  BY <1>0, <1>a, WakeupEffect, Zenon DEF exit_wakeup
<1>2. TypeOK'
  BY <1>0, <1>b, Zenon DEF TypeOK, exit_wakeup, Goto, PC, locks, locals, Stirred
<1>3. ParentsAlive'
  BY <1>0, <1>b, StirredTable, Zenon DEF exit_wakeup
<1>4. NoZombieMissed'
  BY <1>0, <1>b, StirredTable, Zenon DEF exit_wakeup
<1>5. \A q \in Slot : ThreadInv(q)'
  BY <1>0, <1>b, StirredFacts DEF Inner, ThreadInv, exit_wakeup, Goto, On, Over, Exiting, locks
<1>6. \A q \in Slot : LockInv(q)'
  BY <1>0, <1>1 DEF Inner, LockInv, exit_wakeup, Goto, locks, WLocked
<1>7. \A q \in Slot : ExitingInv(q)'
  BY <1>0, <1>1, <1>b DEF Inner, ExitingInv, exit_wakeup, Goto, On, WLocked
<1>8. \A q \in Slot : ScanningInv(q)'
  BY <1>0, <1>1 DEF ScanningInv, exit_wakeup, Goto, On, WLocked
<1>9. \A q \in Slot : ForkInv(q)'
  BY <1>0, <1>b, StirredFacts DEF Inner, ForkInv, exit_wakeup, Goto, Forking, locals
<1> QED
  BY <1>2, <1>3, <1>4, <1>5, <1>6, <1>7, <1>8, <1>9, Conclude, Zenon

LEMMA ExitZombieStep == ASSUME IInv, NEW p \in Slot, exit_zombie(p) PROVE IInv'
<1>0. TypeOK /\ ParentsAlive /\ NoZombieMissed /\ Inner
  BY Zenon DEF IInv, exit_zombie, On
<1>1. None \notin Slot /\ pc[p] \in WLocked /\ \A q \in Slot \ {p} : pc[q] \notin WLocked
  BY <1>0, OneHolder, Zenon DEF exit_zombie, On, WLocked
<1>a. /\ p # initproc /\ parent[p] \in Slot /\ state[parent[p]] # "SLEEPING"
      /\ \A q \in Slot : parent[q] # p
  BY <1>0 DEF exit_zombie, On, TypeOK, ParentsAlive, Inner, ThreadInv, ExitingInv, Exiting
<1>2. TypeOK'
  BY <1>0, Zenon DEF TypeOK, exit_zombie, Goto, locals, PC, State
<1>3. ParentsAlive'
  BY <1>0, <1>a DEF ParentsAlive, exit_zombie, On, Alive
<1>4. NoZombieMissed'
  BY <1>0, <1>a DEF NoZombieMissed, exit_zombie
<1>5. \A q \in Slot : ThreadInv(q)'
  BY <1>0 DEF TypeOK, Inner, ThreadInv, exit_zombie, Goto, On, Alive, Over, Exiting
<1>6. \A q \in Slot : LockInv(q)'
  BY <1>0, <1>1, Zenon DEF TypeOK, LockInv, exit_zombie, Goto, WLocked
<1>7. \A q \in Slot : ExitingInv(q)'
  BY <1>0, <1>1 DEF Inner, ExitingInv, exit_zombie, Goto
<1>8. \A q \in Slot : ScanningInv(q)'
  BY <1>0, <1>1 DEF ScanningInv, exit_zombie, Goto, On, WLocked
<1>9. \A q \in Slot : ForkInv(q)'
  BY <1>0 DEF Inner, ForkInv, exit_zombie, Goto, On, locals, Forking
<1> QED
  BY <1>2, <1>3, <1>4, <1>5, <1>6, <1>7, <1>8, <1>9, Conclude, Zenon

LEMMA ExitSchedStep == ASSUME IInv, NEW p \in Slot, exit_sched(p) PROVE IInv'
<1>0. TypeOK /\ ParentsAlive /\ NoZombieMissed /\ Inner
  BY Zenon DEF IInv, exit_sched
<1>1. None \notin Slot
  BY <1>0, OneHolder, Zenon
<1>2. TypeOK'
  BY <1>0, Zenon DEF TypeOK, exit_sched, Goto, fields, locals, PC
<1>3. ParentsAlive'
  BY <1>0, <1>1, Zenon DEF ParentsAlive, exit_sched, fields, Alive
<1>4. NoZombieMissed'
  BY <1>0, Zenon DEF NoZombieMissed, exit_sched, fields
<1>5. \A q \in Slot : ThreadInv(q)'
  BY <1>0 DEF TypeOK, Inner, ThreadInv, exit_sched, Goto, fields, Alive, Over
<1>6. \A q \in Slot : LockInv(q)'
  BY <1>0, <1>1 DEF Inner, LockInv, exit_sched, Goto, WLocked
<1>7. \A q \in Slot : ExitingInv(q)'
  BY <1>0, <1>1 DEF Inner, ExitingInv, exit_sched, Goto, fields
<1>8. \A q \in Slot : ScanningInv(q)'
  BY <1>0, <1>1 DEF Inner, ScanningInv, exit_sched, Goto, fields, locals
<1>9. \A q \in Slot : ForkInv(q)'
  BY <1>0 DEF Inner, ForkInv, exit_sched, Goto, fields, locals, Forking
<1> QED
  BY <1>2, <1>3, <1>4, <1>5, <1>6, <1>7, <1>8, <1>9, Conclude, Zenon

LEMMA WaitStep == ASSUME IInv, NEW p \in Slot, wait(p) PROVE IInv'
<1>0. TypeOK /\ ParentsAlive /\ NoZombieMissed /\ Inner
  BY Zenon DEF IInv, wait, On
<1>1. None \notin Slot /\ \A q \in Slot : pc[q] \notin WLocked
  BY <1>0, OneHolder, Zenon DEF wait
<1>2. TypeOK'
  <2>1. 1 \in 1 .. NPROC + 1
    BY ProcAssumption
  <2> QED
    BY <1>0, <2>1, Zenon DEF TypeOK, wait, Goto, PC, fields
<1>3. ParentsAlive'
  BY <1>0, <1>1, Zenon DEF ParentsAlive, wait, fields, Alive
<1>4. NoZombieMissed'
  BY <1>0, Zenon DEF NoZombieMissed, wait, fields
<1>5. \A q \in Slot : ThreadInv(q)'
  BY <1>0 DEF Inner, ThreadInv, wait, Goto, On, fields, Alive, Over, Exiting
<1>6. \A q \in Slot : LockInv(q)'
  BY <1>0, <1>1, Zenon DEF TypeOK, LockInv, wait, Goto, WLocked
<1>7. \A q \in Slot : ExitingInv(q)'
  BY <1>0, <1>1 DEF ExitingInv, wait, Goto, WLocked
<1>8. \A q \in Slot : ScanningInv(q)'
  <2>1. scan'[p] = 1 /\ pc'[p] = "wait_scan"
    BY <1>0, Zenon DEF TypeOK, wait, Goto
  <2>2. \A q \in Slot : ~(q < 1)
    BY ProcAssumption DEF Slot
  <2> QED
    BY <1>0, <1>1, <2>1, <2>2 DEF ScanningInv, wait, Goto, WLocked
<1>9. \A q \in Slot : ForkInv(q)'
  BY <1>0 DEF Inner, ForkInv, wait, Goto, fields, Forking
<1> QED
  BY <1>2, <1>3, <1>4, <1>5, <1>6, <1>7, <1>8, <1>9, Conclude, Zenon

LEMMA WaitNextStep == ASSUME IInv, NEW p \in Slot, wait_next(p) PROVE IInv'
<1>0. TypeOK /\ ParentsAlive /\ NoZombieMissed /\ Inner
  BY Zenon DEF IInv, wait_next, On
<1>1. None \notin Slot /\ pc[p] \in WLocked /\ \A q \in Slot \ {p} : pc[q] \notin WLocked
  BY <1>0, OneHolder, Zenon DEF wait_next, On, WLocked
<1>2. TypeOK'
  <2>1. scan[p] + 1 \in 1 .. NPROC + 1
    BY ProcAssumption DEF wait_next, Slot
  <2> QED
    BY <1>0, <2>1, Zenon DEF TypeOK, wait_next, fields, locks
<1>3. ParentsAlive'
  BY <1>0, <1>1, Zenon DEF ParentsAlive, wait_next, fields, Alive
<1>4. NoZombieMissed'
  BY <1>0, Zenon DEF NoZombieMissed, wait_next, fields
<1>5. \A q \in Slot : ThreadInv(q)'
  BY <1>0, Zenon DEF Inner, ThreadInv, wait_next, fields, locks, Alive
<1>6. \A q \in Slot : LockInv(q)'
  BY <1>0, <1>1, Zenon DEF Inner, LockInv, wait_next, locks
<1>7. \A q \in Slot : ExitingInv(q)'
  BY <1>0, <1>1, Zenon DEF ExitingInv, wait_next, On, WLocked
<1>8. \A q \in Slot : ScanningInv(q)'
  <2>1. scan'[p] = scan[p] + 1 /\ pc' = pc /\ pc[p] = "wait_scan" /\ scan[p] \in Slot
        /\ \A q \in Slot : q < scan[p] + 1 => q = scan[p] \/ q < scan[p]
    BY <1>0 DEF TypeOK, wait_next, On, Slot
  <2>2. \A q \in Slot : parent[q] = p /\ q < scan'[p] => state[q] # "ZOMBIE" /\ havekids'[p]
    BY <1>0, <2>1, Zenon DEF TypeOK, Inner, ScanningInv, wait_next
  <2> QED
    BY <1>0, <1>1, <2>1, <2>2, Zenon DEF ScanningInv, wait_next, fields, WLocked
<1>9. \A q \in Slot : ForkInv(q)'
  BY <1>0, Zenon DEF Inner, ForkInv, wait_next, fields
<1> QED
  BY <1>2, <1>3, <1>4, <1>5, <1>6, <1>7, <1>8, <1>9, Conclude, Zenon

LEMMA WaitReapStep == ASSUME IInv, NEW p \in Slot, wait_reap(p) PROVE IInv'
<1>0. TypeOK /\ ParentsAlive /\ NoZombieMissed /\ Inner
  BY Zenon DEF IInv, wait_reap, On
<1>1. None \notin Slot /\ pc[p] \in WLocked /\ \A q \in Slot \ {p} : pc[q] \notin WLocked
  BY <1>0, OneHolder, Zenon DEF wait_reap, On, WLocked
<1>2. TypeOK'
  <2>1. 0 \in 0 .. MAXPID /\ scan[p] \in Slot
    BY ProcAssumption DEF wait_reap
  <2> QED
    BY <1>0, <2>1, Zenon DEF TypeOK, wait_reap, freeproc, Goto, PC, State, locals
<1>3. ParentsAlive'
  BY <1>0, <1>1, Zenon DEF TypeOK, ParentsAlive, wait_reap, freeproc, Alive
<1>4. NoZombieMissed'
  BY <1>0 DEF TypeOK, NoZombieMissed, wait_reap, freeproc, On
<1>5. \A q \in Slot : ThreadInv(q)'
  <2>1. scan[p] \in Slot /\ scan[p] # p /\ pc[scan[p]] = "dead"
    BY <1>0, <1>1, Zenon DEF wait_reap, On, Inner, ThreadInv, Alive, Over
  <2> QED
    BY <1>0, <2>1 DEF Inner, ThreadInv, wait_reap, freeproc, Goto, On, Alive, Over, Exiting
<1>6. \A q \in Slot : LockInv(q)'
  BY <1>0, <1>1, Zenon DEF TypeOK, LockInv, wait_reap, Goto, WLocked
<1>7. \A q \in Slot : ExitingInv(q)'
  BY <1>0, <1>1 DEF ExitingInv, wait_reap, Goto, On, WLocked
<1>8. \A q \in Slot : ScanningInv(q)'
  BY <1>0, <1>1 DEF Inner, ScanningInv, wait_reap, freeproc, Goto, locals
<1>9. \A q \in Slot : ForkInv(q)'
  BY <1>0 DEF Inner, ForkInv, wait_reap, freeproc, Goto, locals, Forking
<1> QED
  BY <1>2, <1>3, <1>4, <1>5, <1>6, <1>7, <1>8, <1>9, Conclude, Zenon

LEMMA WaitBadaddrStep == ASSUME IInv, NEW p \in Slot, wait_badaddr(p) PROVE IInv'
<1>0. TypeOK /\ ParentsAlive /\ NoZombieMissed /\ Inner
  BY Zenon DEF IInv, wait_badaddr, On
<1>1. None \notin Slot /\ pc[p] \in WLocked /\ \A q \in Slot \ {p} : pc[q] \notin WLocked
  BY <1>0, OneHolder, Zenon DEF wait_badaddr, On, WLocked
<1>2. TypeOK'
  BY <1>0, Zenon DEF TypeOK, wait_badaddr, Goto, fields, locals, PC
<1>3. ParentsAlive'
  BY <1>0, <1>1, Zenon DEF ParentsAlive, wait_badaddr, fields, Alive
<1>4. NoZombieMissed'
  BY <1>0, Zenon DEF NoZombieMissed, wait_badaddr, fields
<1>5. \A q \in Slot : ThreadInv(q)'
  BY <1>0 DEF Inner, ThreadInv, wait_badaddr, Goto, On, fields, Alive, Over
<1>6. \A q \in Slot : LockInv(q)'
  BY <1>0, <1>1, Zenon DEF TypeOK, LockInv, wait_badaddr, Goto, WLocked
<1>7. \A q \in Slot : ExitingInv(q)'
  BY <1>0, <1>1 DEF ExitingInv, wait_badaddr, Goto, On, WLocked
<1>8. \A q \in Slot : ScanningInv(q)'
  BY <1>0, <1>1 DEF Inner, ScanningInv, wait_badaddr, Goto, fields, locals
<1>9. \A q \in Slot : ForkInv(q)'
  BY <1>0 DEF Inner, ForkInv, wait_badaddr, Goto, fields, locals, Forking
<1> QED
  BY <1>2, <1>3, <1>4, <1>5, <1>6, <1>7, <1>8, <1>9, Conclude, Zenon

LEMMA WaitNokidsStep == ASSUME IInv, NEW p \in Slot, wait_nokids(p) PROVE IInv'
<1>0. TypeOK /\ ParentsAlive /\ NoZombieMissed /\ Inner
  BY Zenon DEF IInv, wait_nokids, On
<1>1. None \notin Slot /\ pc[p] \in WLocked /\ \A q \in Slot \ {p} : pc[q] \notin WLocked
  BY <1>0, OneHolder, Zenon DEF wait_nokids, On, WLocked
<1>2. TypeOK'
  BY <1>0, Zenon DEF TypeOK, wait_nokids, Goto, fields, locals, PC
<1>3. ParentsAlive'
  BY <1>0, <1>1, Zenon DEF ParentsAlive, wait_nokids, fields, Alive
<1>4. NoZombieMissed'
  BY <1>0, Zenon DEF NoZombieMissed, wait_nokids, fields
<1>5. \A q \in Slot : ThreadInv(q)'
  BY <1>0 DEF Inner, ThreadInv, wait_nokids, Goto, On, fields, Alive, Over, Exiting
<1>6. \A q \in Slot : LockInv(q)'
  BY <1>0, <1>1, Zenon DEF TypeOK, LockInv, wait_nokids, Goto, WLocked
<1>7. \A q \in Slot : ExitingInv(q)'
  BY <1>0, <1>1 DEF ExitingInv, wait_nokids, Goto, On, WLocked
<1>8. \A q \in Slot : ScanningInv(q)'
  BY <1>0, <1>1 DEF Inner, ScanningInv, wait_nokids, Goto, fields, locals
<1>9. \A q \in Slot : ForkInv(q)'
  BY <1>0 DEF Inner, ForkInv, wait_nokids, Goto, fields, locals, Forking
<1> QED
  BY <1>2, <1>3, <1>4, <1>5, <1>6, <1>7, <1>8, <1>9, Conclude, Zenon

LEMMA WaitKidsStep == ASSUME IInv, NEW p \in Slot, wait_kids(p) PROVE IInv'
<1>0. TypeOK /\ ParentsAlive /\ NoZombieMissed /\ Inner
  BY Zenon DEF IInv, wait_kids, On
<1>1. None \notin Slot /\ pc[p] \in WLocked /\ \A q \in Slot \ {p} : pc[q] \notin WLocked
  BY <1>0, OneHolder, Zenon DEF wait_kids, On, WLocked
<1>2. TypeOK'
  BY <1>0, Zenon DEF TypeOK, wait_kids, Goto, fields, locks, locals, PC
<1>3. ParentsAlive'
  BY <1>0, <1>1, Zenon DEF ParentsAlive, wait_kids, fields, Alive
<1>4. NoZombieMissed'
  BY <1>0, Zenon DEF NoZombieMissed, wait_kids, fields
<1>5. \A q \in Slot : ThreadInv(q)'
  BY <1>0 DEF Inner, ThreadInv, wait_kids, Goto, On, fields, locks, Alive, Over, Exiting
<1>6. \A q \in Slot : LockInv(q)'
  BY <1>0, <1>1 DEF Inner, LockInv, wait_kids, Goto, locks, WLocked
<1>7. \A q \in Slot : ExitingInv(q)'
  BY <1>0, <1>1 DEF ExitingInv, wait_kids, Goto, On, WLocked
<1>8. \A q \in Slot : ScanningInv(q)'
  BY <1>0, <1>1 DEF Inner, ScanningInv, wait_kids, Goto, On, fields, locals
<1>9. \A q \in Slot : ForkInv(q)'
  BY <1>0 DEF Inner, ForkInv, wait_kids, Goto, fields, locals, Forking
<1> QED
  BY <1>2, <1>3, <1>4, <1>5, <1>6, <1>7, <1>8, <1>9, Conclude, Zenon

LEMMA WaitSleepStep == ASSUME IInv, NEW p \in Slot, wait_sleep(p) PROVE IInv'
<1>0. TypeOK /\ ParentsAlive /\ NoZombieMissed /\ Inner
  BY Zenon DEF IInv, wait_sleep, On
<1>1. None \notin Slot /\ pc[p] \in WLocked /\ \A q \in Slot \ {p} : pc[q] \notin WLocked
  BY <1>0, OneHolder, Zenon DEF wait_sleep, On, WLocked
<1>2. TypeOK'
  BY <1>0, Zenon DEF TypeOK, wait_sleep, Goto, locals, PC, State
<1>3. ParentsAlive'
  BY <1>0, <1>1 DEF ParentsAlive, wait_sleep, On, Alive
<1>4. NoZombieMissed'
  <2>1. \A q \in Slot : parent[q] = p => state[q] # "ZOMBIE"
    BY <1>0, ProcAssumption DEF wait_sleep, On, Inner, ScanningInv, Slot
  <2> QED
    BY <1>0, <2>1 DEF NoZombieMissed, wait_sleep
<1>5. \A q \in Slot : ThreadInv(q)'
  BY <1>0 DEF TypeOK, Inner, ThreadInv, wait_sleep, Goto, On, Alive, Over, Exiting
<1>6. \A q \in Slot : LockInv(q)'
  BY <1>0, <1>1, Zenon DEF TypeOK, LockInv, wait_sleep, Goto, WLocked
<1>7. \A q \in Slot : ExitingInv(q)'
  BY <1>0, <1>1 DEF ExitingInv, wait_sleep, Goto, On, WLocked
<1>8. \A q \in Slot : ScanningInv(q)'
  BY <1>0, <1>1 DEF Inner, ScanningInv, wait_sleep, Goto, locals
<1>9. \A q \in Slot : ForkInv(q)'
  BY <1>0 DEF Inner, ForkInv, wait_sleep, Goto, On, locals, Forking
<1> QED
  BY <1>2, <1>3, <1>4, <1>5, <1>6, <1>7, <1>8, <1>9, Conclude, Zenon

LEMMA WaitWokenStep == ASSUME IInv, NEW p \in Slot, wait_woken(p) PROVE IInv'
<1>0. TypeOK /\ ParentsAlive /\ NoZombieMissed /\ Inner
  BY Zenon DEF IInv, wait_woken, On
<1>1. None \notin Slot
  BY <1>0, OneHolder, Zenon
<1>2. TypeOK'
  BY <1>0, Zenon DEF TypeOK, wait_woken, Goto, locks, locals, PC
<1>3. ParentsAlive'
  BY <1>0, <1>1, Zenon DEF ParentsAlive, wait_woken, Alive
<1>4. NoZombieMissed'
  BY <1>0, Zenon DEF NoZombieMissed, wait_woken
<1>5. \A q \in Slot : ThreadInv(q)'
  BY <1>0 DEF Inner, ThreadInv, wait_woken, Goto, On, locks, Alive, Over, Exiting
<1>6. \A q \in Slot : LockInv(q)'
  BY <1>0, <1>1 DEF Inner, LockInv, wait_woken, Goto, On, locks, WLocked
<1>7. \A q \in Slot : ExitingInv(q)'
  BY <1>0, <1>1 DEF Inner, ExitingInv, wait_woken, Goto
<1>8. \A q \in Slot : ScanningInv(q)'
  BY <1>0, <1>1 DEF Inner, ScanningInv, wait_woken, Goto, locals
<1>9. \A q \in Slot : ForkInv(q)'
  BY <1>0 DEF Inner, ForkInv, wait_woken, Goto, locals, Forking
<1> QED
  BY <1>2, <1>3, <1>4, <1>5, <1>6, <1>7, <1>8, <1>9, Conclude, Zenon

LEMMA KillStep == ASSUME IInv, NEW p \in Slot, NEW i \in KillArgs, kill(p, i) PROVE IInv'
<1>0. TypeOK /\ ParentsAlive /\ NoZombieMissed /\ Inner
  BY Zenon DEF IInv, kill, On
<1>1. None \notin Slot
  BY <1>0, OneHolder, Zenon
<1>a. PICK t \in Slot : /\ killed' = [killed EXCEPT ![t] = TRUE]
                      /\ state' = [state EXCEPT ![t] = IF @ = "SLEEPING" THEN "RUNNABLE" ELSE @]
  BY Zenon DEF kill
<1>b. killed' \in [Slot -> BOOLEAN]
  BY <1>0, <1>a, Zenon DEF TypeOK
<1>c. Stirred
  BY <1>0, <1>a, Zenon DEF Stirred, TypeOK, State
<1>2. TypeOK'
  BY <1>0, <1>b, <1>c, Zenon DEF TypeOK, kill, Goto, PC, locks, locals, Stirred
<1>3. ParentsAlive'
  BY <1>0, <1>c, StirredTable, Zenon DEF kill
<1>4. NoZombieMissed'
  BY <1>0, <1>c, StirredTable, Zenon DEF kill
<1>5. \A q \in Slot : ThreadInv(q)'
  BY <1>0, <1>c, StirredFacts DEF Inner, ThreadInv, kill, Goto, On, Over, Exiting, locks
<1>6. \A q \in Slot : LockInv(q)'
  BY <1>0, <1>1 DEF Inner, LockInv, kill, Goto, On, locks, WLocked
<1>7. \A q \in Slot : ExitingInv(q)'
  BY <1>0, <1>c, StirredFacts DEF Inner, ExitingInv, kill, Goto
<1>8. \A q \in Slot : ScanningInv(q)'
  BY <1>0, <1>c, StirredFacts DEF Inner, ScanningInv, kill, Goto, locals
<1>9. \A q \in Slot : ForkInv(q)'
  BY <1>0, <1>c, StirredFacts DEF Inner, ForkInv, kill, Goto, Forking, locals
<1> QED
  BY <1>2, <1>3, <1>4, <1>5, <1>6, <1>7, <1>8, <1>9, Conclude, Zenon

-----------------------------------------------------------------------------
LEMMA InitInv == Init => IInv
<1> SUFFICES ASSUME Init PROVE IInv
  BY Zenon
<1>0. /\ initproc \in Slot /\ None \notin Slot /\ 1 \in 0 .. MAXPID /\ 0 \in 0 .. MAXPID
      /\ 2 \in 1 .. MAXPID + 1 /\ 1 \in 1 .. NPROC + 1 /\ \A q \in Slot : ~(q < 1)
  BY ProcAssumption DEF Slot, None, initproc
<1>1. TypeOK
  BY <1>0, Zenon DEF Init, TypeOK, State, PC
<1>2. ParentsAlive /\ FreeSlotOffStack /\ NoZombieMissed /\ NoKidsIsTrue
  BY <1>0, Zenon DEF Init, ParentsAlive, FreeSlotOffStack, NoZombieMissed, NoKidsIsTrue
<1>3. \A q \in Slot : ThreadInv(q) /\ LockInv(q)
  BY <1>0, Zenon DEF Init, ThreadInv, LockInv, Alive, Over, Exiting, WLocked
<1>4. \A q \in Slot : ExitingInv(q) /\ ScanningInv(q) /\ ForkInv(q)
  BY <1>0, Zenon DEF Init, ExitingInv, ScanningInv, ForkInv, Forking
<1> QED
  BY <1>1, <1>2, <1>3, <1>4, Zenon DEF IInv, Inner

LEMMA StepInv == IInv /\ [Next]_vars => IInv'
<1> SUFFICES ASSUME IInv, [Next]_vars PROVE IInv'
  BY Zenon
<1>1. CASE UNCHANGED vars
  <2>1. UNCHANGED <<state, chan, killed, pid, parent, plock, wait_lock, nextpid, onstack, pc, scan,
                    np, havekids, panicked>>
    BY <1>1, Zenon DEF vars, fields, locks, locals
  <2>2. TypeOK' /\ ParentsAlive' /\ FreeSlotOffStack' /\ NoZombieMissed' /\ NoKidsIsTrue'
    BY <2>1, Zenon
       DEF IInv, TypeOK, ParentsAlive, FreeSlotOffStack, NoZombieMissed, NoKidsIsTrue, Alive
  <2>3. ASSUME Inner PROVE Inner'
    BY <2>1, <2>3 DEF Inner, ThreadInv, LockInv, ExitingInv, ScanningInv, ForkInv, Alive
  <2> QED
    BY <2>1, <2>2, <2>3, Zenon DEF IInv
<1>2. ASSUME NEW p \in Slot, Schedule(p) \/ Syscall(p) \/ SysExit(p) \/ Interrupt(p) \/ usertrap(p)
      PROVE  IInv'
  BY <1>2, ScheduleStep, PlainInv, Zenon
<1>3. ASSUME NEW p \in Slot, Fork(p) PROVE IInv'
  BY <1>3, PlainInv, AllocprocFoundStep, ForkNomemStep, ForkCopyStep, ForkParentStep,
     ForkRunStep, Zenon
     DEF Fork
<1>4. ASSUME NEW p \in Slot, Exit(p) PROVE IInv'
  BY <1>4, ExitStep, ReparentStep, ExitWakeupStep, ExitZombieStep, ExitSchedStep, Zenon DEF Exit
<1>5. ASSUME NEW p \in Slot, Wait(p) PROVE IInv'
  BY <1>5, WaitStep, WaitNextStep, WaitReapStep, WaitBadaddrStep, WaitNokidsStep, WaitKidsStep,
     WaitSleepStep, WaitWokenStep, Zenon
     DEF Wait
<1> QED
  BY <1>1, <1>2, <1>3, <1>4, <1>5, KillStep, Zenon DEF Next

\* The inductive invariant holds throughout.
THEOREM Invariance == Spec => []IInv
  BY InitInv, StepInv, PTL DEF Spec

\* proc.c keeps the process table sound for any number of slots: parent
\* pointers never dangle, whatever the order of forks, exits and failures, and
\* no slot is free while a CPU is still on its kernel stack.
THEOREM TableSafe == Spec => []ProcInv
<1>1. IInv => ProcInv
  BY Zenon DEF IInv, ProcInv
<1> QED
  BY <1>1, Invariance, PTL

\* exit() wakes its parent before the child is a zombie, under wait_lock; still
\* no parent sleeps in wait() while it has a zombie to collect.
THEOREM ZombiesCollected == Spec => []NoZombieMissed
<1>1. IInv => NoZombieMissed
  BY Zenon DEF IInv
<1> QED
  BY <1>1, Invariance, PTL

\* wait() returns for want of children only if there are none, though children
\* are adopted, forked and reaped around its scan.
THEOREM NoKidsTold == Spec => []NoKidsIsTrue
<1>1. IInv => NoKidsIsTrue
  BY Zenon DEF IInv
<1> QED
  BY <1>1, Invariance, PTL
=============================================================================
