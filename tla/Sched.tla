------------------------------- MODULE Sched -------------------------------
(***************************************************************************)
(* The scheduler and sleep/wakeup: kernel/proc.c (scheduler, sched, yield, *)
(* forkret, sleep, wakeup) over kernel/spinlock.c (acquire, release,       *)
(* push_off, pop_off), with timer and device interrupts (kernel/trap.c).   *)
(*                                                                         *)
(* The kernel threads are clients of one condition: they wait for cond     *)
(* with sleep(chan, lk), or set it and call wakeup(chan), both under the   *)
(* spinlock lk, as pipes, the log, the console and the disk driver do; a   *)
(* device interrupt sets it too.  A step is what one CPU does between two  *)
(* points where another CPU or an interrupt can interfere.                 *)
(***************************************************************************)
EXTENDS Integers, FiniteSets

CONSTANTS NPROC,     \* size of the process table
          CPU,       \* the harts
          NoCPU      \* a lock that is free

ASSUME SchedAssumption == NPROC \in Nat \ {0} /\ NoCPU \notin CPU /\ IsFiniteSet(CPU)

Proc == 1 .. NPROC
Idle == 0            \* c->proc = 0; also: the CPU is on the scheduler's stack
LK == 0              \* the condition lock; lock p \in Proc is proc[p].lock
Lock == {LK} \cup Proc

VARIABLES
  cpu,      \* struct cpu, the interrupt flag, and where each CPU executes
  proc,     \* struct proc, and where each kernel thread stands
  lock,     \* lk->cpu, per lock
  cond,     \* the condition that sleepers wait for
  panicked

vars == <<cpu, proc, lock, cond, panicked>>

CpuRec ==
  [noff : 0 .. 3, intena : BOOLEAN,
   intr : BOOLEAN,                      \* sstatus.SIE
   proc : Proc \cup {Idle},             \* c->proc
   stack : Proc \cup {Idle},            \* whose kernel stack it runs on
   scan : 1 .. NPROC + 1,               \* scheduler()'s loop variable
   swtched : BOOLEAN,                   \* scheduler() is between swtch() and release()
   irq : {"none", "acquire", "wakeup"}, \* a device interrupt handler
   iscan : 1 .. NPROC + 1]              \* its wakeup()'s loop variable

ThreadPC == {"forkret", "run", "wait", "sleep1", "sleep2", "sleep3", "sleep4", "sleep5",
             "set", "wakeup", "yield1", "yield2", "yield3"}

ProcRec ==
  [state : {"RUNNABLE", "RUNNING", "SLEEPING"},
   chan : BOOLEAN,                      \* p->chan is the condition's channel
   pc : ThreadPC,
   ret : ThreadPC,                      \* what a timer interrupt interrupted
   intena : BOOLEAN,                    \* sched()'s local variable
   scan : 1 .. NPROC + 1]               \* wakeup()'s loop variable

-----------------------------------------------------------------------------
(* spinlock.c, as functions of a cpu record                                *)

push_off(r) ==
  [r EXCEPT !.noff = @ + 1,
            !.intena = IF r.noff = 0 THEN r.intr ELSE @,
            !.intr = FALSE]

pop_off(r) ==
  [r EXCEPT !.noff = @ - 1,
            !.intr = r.noff = 1 /\ r.intena]

\* panic() unless ok.
Check(ok, msg) == panicked' = IF ok THEN "no" ELSE msg

\* acquire(): spins while another CPU holds the lock; holding it is a panic.
Acquirable(c, l) == lock[l] \in {NoCPU, c}
CanPop(r) == ~r.intr /\ r.noff >= 1
Holding(c, l) == lock[l] = c

Running == panicked = "no"
InScheduler(c) == Running /\ cpu[c].irq = "none" /\ cpu[c].stack = Idle
InThread(c, p) == Running /\ cpu[c].irq = "none" /\ cpu[c].stack = p

-----------------------------------------------------------------------------
(* scheduler()                                                             *)

\* for(;;): enable interrupts and start over.
sched_loop(c) ==
  /\ InScheduler(c) /\ ~cpu[c].swtched /\ cpu[c].scan = NPROC + 1
  /\ cpu' = [cpu EXCEPT ![c].intr = TRUE, ![c].scan = 1]
  /\ UNCHANGED <<proc, lock, cond, panicked>>

\* acquire(&p->lock), and release it again because p is not RUNNABLE.
sched_skip(c) ==
  LET p == cpu[c].scan IN
  /\ InScheduler(c) /\ ~cpu[c].swtched /\ p \in Proc
  /\ Acquirable(c, p) /\ proc[p].state # "RUNNABLE"
  /\ Check(~Holding(c, p), "acquire")
  /\ cpu' = [cpu EXCEPT ![c] = [pop_off(push_off(@)) EXCEPT !.scan = p + 1]]
  /\ UNCHANGED <<proc, lock, cond>>

MutantSchedRun(c) ==                \* tests and sets p->state without p->lock
  LET p == cpu[c].scan IN
  /\ InScheduler(c) /\ ~cpu[c].swtched /\ p \in Proc
  /\ proc[p].state = "RUNNABLE"
  /\ lock' = [lock EXCEPT ![p] = c]
  /\ proc' = [proc EXCEPT ![p].state = "RUNNING"]
  /\ cpu' = [cpu EXCEPT ![c] = [push_off(@) EXCEPT !.proc = p, !.stack = p,
                                                   !.swtched = TRUE]]
  /\ UNCHANGED <<cond, panicked>>

\* acquire(&p->lock); p is RUNNABLE; swtch(&c->context, &p->context).
sched_run(c) ==
  LET p == cpu[c].scan IN
  /\ InScheduler(c) /\ ~cpu[c].swtched /\ p \in Proc
  /\ Acquirable(c, p) /\ proc[p].state = "RUNNABLE"
  /\ Check(~Holding(c, p), "acquire")
  /\ lock' = [lock EXCEPT ![p] = c]
  /\ proc' = [proc EXCEPT ![p].state = "RUNNING"]
  /\ cpu' = [cpu EXCEPT ![c] = [push_off(@) EXCEPT !.proc = p, !.stack = p,
                                                   !.swtched = TRUE]]
  /\ UNCHANGED cond

MutantSchedBackStale(c) ==          \* c->proc not cleared
  LET p == cpu[c].scan IN
  /\ InScheduler(c) /\ cpu[c].swtched
  /\ Check(Holding(c, p) /\ CanPop(cpu[c]), "release")
  /\ lock' = [lock EXCEPT ![p] = NoCPU]
  /\ cpu' = [cpu EXCEPT ![c] = [pop_off(@) EXCEPT !.swtched = FALSE, !.scan = p + 1]]
  /\ UNCHANGED <<proc, cond>>

MutantSchedBackRestarts(c) ==       \* scans from the first process again
  LET p == cpu[c].scan IN
  /\ InScheduler(c) /\ cpu[c].swtched
  /\ Check(Holding(c, p) /\ CanPop(cpu[c]), "release")
  /\ lock' = [lock EXCEPT ![p] = NoCPU]
  /\ cpu' = [cpu EXCEPT ![c] = [pop_off(@) EXCEPT !.proc = Idle, !.swtched = FALSE,
                                                  !.scan = 1]]
  /\ UNCHANGED <<proc, cond>>

\* Back from swtch(): c->proc = 0; release(&p->lock).
sched_back(c) ==
  LET p == cpu[c].scan IN
  /\ InScheduler(c) /\ cpu[c].swtched
  /\ Check(Holding(c, p) /\ CanPop(cpu[c]), "release")
  /\ lock' = [lock EXCEPT ![p] = NoCPU]
  /\ cpu' = [cpu EXCEPT ![c] = [pop_off(@) EXCEPT !.proc = Idle, !.swtched = FALSE,
                                                  !.scan = p + 1]]
  /\ UNCHANGED <<proc, cond>>

-----------------------------------------------------------------------------
(* Threads                                                                 *)

Goto(p, l) == proc' = [proc EXCEPT ![p].pc = l]

ThreadAcquire(c, l) ==
  /\ Acquirable(c, l)
  /\ Check(~Holding(c, l), "acquire")
  /\ lock' = [lock EXCEPT ![l] = c]
  /\ cpu' = [cpu EXCEPT ![c] = push_off(@)]

ThreadRelease(c, l) ==
  /\ Check(Holding(c, l) /\ CanPop(cpu[c]), "release")
  /\ lock' = [lock EXCEPT ![l] = NoCPU]
  /\ cpu' = [cpu EXCEPT ![c] = pop_off(@)]

\* A new process's first time on a CPU: release(&p->lock), then user space,
\* where interrupts are on.
forkret(c, p) ==
  /\ InThread(c, p) /\ proc[p].pc = "forkret"
  /\ Check(Holding(c, p) /\ CanPop(cpu[c]), "release")
  /\ lock' = [lock EXCEPT ![p] = NoCPU]
  /\ cpu' = [cpu EXCEPT ![c] = [pop_off(@) EXCEPT !.intr = TRUE]]
  /\ Goto(p, "run")
  /\ UNCHANGED cond

\* A system call that waits for the condition, or one that makes it true.
Syscall(c, p) ==
  /\ InThread(c, p) /\ proc[p].pc = "run"
  /\ Goto(p, "wait") \/ Goto(p, "set")
  /\ UNCHANGED <<cpu, lock, cond, panicked>>

\* acquire(lk); while(!cond) sleep(chan, lk); ... release(lk)
wait(c, p) ==
  /\ InThread(c, p) /\ proc[p].pc = "wait"
  /\ Acquirable(c, LK)
  /\ Check(~Holding(c, LK), "acquire")
  /\ \/ /\ cond
        /\ cond' = FALSE
        /\ cpu' = [cpu EXCEPT ![c] = pop_off(push_off(@))]
        /\ Goto(p, "run")
        /\ UNCHANGED lock
     \/ /\ ~cond
        /\ lock' = [lock EXCEPT ![LK] = c]
        /\ cpu' = [cpu EXCEPT ![c] = push_off(@)]
        /\ Goto(p, "sleep1")
        /\ UNCHANGED cond

\* sleep(): acquire(&p->lock) before release(lk)
sleep_acquire(c, p) ==
  /\ InThread(c, p) /\ proc[p].pc = "sleep1"
  /\ ThreadAcquire(c, p)
  /\ Goto(p, "sleep2")
  /\ UNCHANGED cond

sleep_release(c, p) ==
  /\ InThread(c, p) /\ proc[p].pc = "sleep2"
  /\ ThreadRelease(c, LK)
  /\ Goto(p, "sleep3")
  /\ UNCHANGED cond

\* p->chan = chan; p->state = SLEEPING
sleep_state(c, p) ==
  /\ InThread(c, p) /\ proc[p].pc = "sleep3"
  /\ proc' = [proc EXCEPT ![p].chan = TRUE, ![p].state = "SLEEPING", ![p].pc = "sleep4"]
  /\ UNCHANGED <<cpu, lock, cond, panicked>>

\* sched(): its four checks, then swtch() away from p's stack, p->lock held.
sched(c, p, l) ==
  /\ Check(Holding(c, p) /\ cpu[c].noff = 1 /\ proc[p].state # "RUNNING" /\ ~cpu[c].intr,
           "sched")
  /\ proc' = [proc EXCEPT ![p].pc = l, ![p].intena = cpu[c].intena]
  /\ cpu' = [cpu EXCEPT ![c].stack = Idle]
  /\ UNCHANGED <<lock, cond>>

sleep_sched(c, p) ==
  /\ InThread(c, p) /\ proc[p].pc = "sleep4"
  /\ sched(c, p, "sleep5")

\* sched() returns on the CPU that runs p next and restores its interrupt
\* state; release(&p->lock); acquire(lk) and the test of the condition follow.
SchedReturns(c, p) ==
  /\ Check(Holding(c, p) /\ CanPop(cpu[c]), "release")
  /\ lock' = [lock EXCEPT ![p] = NoCPU]

sleep_wake(c, p) ==
  /\ InThread(c, p) /\ proc[p].pc = "sleep5"
  /\ SchedReturns(c, p)
  /\ cpu' = [cpu EXCEPT ![c] = pop_off([@ EXCEPT !.intena = proc[p].intena])]
  /\ proc' = [proc EXCEPT ![p].chan = FALSE, ![p].pc = "wait"]
  /\ UNCHANGED cond

\* acquire(lk); cond = 1; wakeup(chan) begins
set_cond(c, p) ==
  /\ InThread(c, p) /\ proc[p].pc = "set"
  /\ ThreadAcquire(c, LK)
  /\ cond' = TRUE
  /\ proc' = [proc EXCEPT ![p].pc = "wakeup", ![p].scan = 1]

MutantWoken(q) ==                   \* the loop stops one process early
  IF proc[q].state = "SLEEPING" /\ proc[q].chan /\ q < NPROC
  THEN [proc EXCEPT ![q].state = "RUNNABLE"] ELSE proc

\* What wakeup(chan) does to process q under q->lock.
Woken(q) ==
  IF proc[q].state = "SLEEPING" /\ proc[q].chan
  THEN [proc EXCEPT ![q].state = "RUNNABLE"] ELSE proc

\* One turn of wakeup()'s loop, skipping the caller.
wakeup(c, p) ==
  LET q == proc[p].scan IN
  /\ InThread(c, p) /\ proc[p].pc = "wakeup" /\ q \in Proc
  /\ \/ /\ q = p
        /\ proc' = [proc EXCEPT ![p].scan = q + 1]
        /\ UNCHANGED panicked
     \/ /\ q # p
        /\ Acquirable(c, q)
        /\ Check(~Holding(c, q), "acquire")
        /\ proc' = [Woken(q) EXCEPT ![p].scan = q + 1]
  /\ UNCHANGED <<cpu, lock, cond>>

set_release(c, p) ==
  /\ InThread(c, p) /\ proc[p].pc = "wakeup" /\ proc[p].scan = NPROC + 1
  /\ ThreadRelease(c, LK)
  /\ Goto(p, "run")
  /\ UNCHANGED cond

-----------------------------------------------------------------------------
(* Interrupts: taken only when sstatus.SIE is set, which the trap clears.  *)

\* kerneltrap or usertrap, which_dev = 2, a process is running: yield().
timer(c, p) ==
  /\ InThread(c, p) /\ cpu[c].intr
  /\ cpu' = [cpu EXCEPT ![c].intr = FALSE]
  /\ proc' = [proc EXCEPT ![p].ret = proc[p].pc, ![p].pc = "yield1"]
  /\ UNCHANGED <<lock, cond, panicked>>

\* acquire(&p->lock); p->state = RUNNABLE
yield_acquire(c, p) ==
  /\ InThread(c, p) /\ proc[p].pc = "yield1"
  /\ ThreadAcquire(c, p)
  /\ proc' = [proc EXCEPT ![p].state = "RUNNABLE", ![p].pc = "yield2"]
  /\ UNCHANGED cond

yield_sched(c, p) ==
  /\ InThread(c, p) /\ proc[p].pc = "yield2"
  /\ sched(c, p, "yield3")

\* release(&p->lock), and the return from the trap, which sets SIE again.
yield_return(c, p) ==
  /\ InThread(c, p) /\ proc[p].pc = "yield3"
  /\ SchedReturns(c, p)
  /\ LET r == pop_off([cpu[c] EXCEPT !.intena = proc[p].intena]) IN
       cpu' = [cpu EXCEPT ![c] = [r EXCEPT !.intr = TRUE]]
  /\ Goto(p, proc[p].ret)
  /\ UNCHANGED cond

\* A device interrupt, on whatever the CPU was doing.
irq_enter(c) ==
  /\ Running /\ cpu[c].irq = "none" /\ cpu[c].intr
  /\ cpu' = [cpu EXCEPT ![c].irq = "acquire", ![c].intr = FALSE]
  /\ UNCHANGED <<proc, lock, cond, panicked>>

irq_set(c) ==
  /\ Running /\ cpu[c].irq = "acquire"
  /\ Acquirable(c, LK)
  /\ Check(~Holding(c, LK), "acquire")
  /\ lock' = [lock EXCEPT ![LK] = c]
  /\ cpu' = [cpu EXCEPT ![c] = [push_off(@) EXCEPT !.irq = "wakeup", !.iscan = 1]]
  /\ cond' = TRUE
  /\ UNCHANGED proc

\* wakeup() in the handler skips the interrupted process, myproc().
irq_wakeup(c) ==
  LET q == cpu[c].iscan IN
  /\ Running /\ cpu[c].irq = "wakeup" /\ q \in Proc
  /\ \/ /\ q = cpu[c].proc
        /\ UNCHANGED <<proc, panicked>>
     \/ /\ q # cpu[c].proc
        /\ Acquirable(c, q)
        /\ Check(~Holding(c, q), "acquire")
        /\ proc' = Woken(q)
  /\ cpu' = [cpu EXCEPT ![c].iscan = q + 1]
  /\ UNCHANGED <<lock, cond>>

irq_return(c) ==
  /\ Running /\ cpu[c].irq = "wakeup" /\ cpu[c].iscan = NPROC + 1
  /\ Check(Holding(c, LK) /\ CanPop(cpu[c]), "release")
  /\ lock' = [lock EXCEPT ![LK] = NoCPU]
  /\ cpu' = [cpu EXCEPT ![c] = [pop_off(@) EXCEPT !.irq = "none", !.intr = TRUE,
                                                  !.iscan = 1]]
  /\ UNCHANGED <<proc, cond>>

-----------------------------------------------------------------------------
\* After main(): every CPU enters scheduler(), every process was made by fork.
Init ==
  /\ cpu = [c \in CPU |-> [noff |-> 0, intena |-> FALSE, intr |-> FALSE,
                           proc |-> Idle, stack |-> Idle, scan |-> NPROC + 1,
                           swtched |-> FALSE, irq |-> "none", iscan |-> 1]]
  /\ proc = [p \in Proc |-> [state |-> "RUNNABLE", chan |-> FALSE, pc |-> "forkret",
                             ret |-> "run", intena |-> FALSE, scan |-> 1]]
  /\ lock = [l \in Lock |-> NoCPU]
  /\ cond = FALSE
  /\ panicked = "no"

scheduler(c) == sched_loop(c) \/ sched_skip(c) \/ sched_run(c) \/ sched_back(c)
irq(c) == irq_set(c) \/ irq_wakeup(c) \/ irq_return(c)
MutantSleep(c, p) ==                \* release(lk) before acquire(&p->lock)
  \/ /\ InThread(c, p) /\ proc[p].pc = "sleep1"
     /\ ThreadRelease(c, LK)
     /\ Goto(p, "sleep2")
     /\ UNCHANGED cond
  \/ /\ InThread(c, p) /\ proc[p].pc = "sleep2"
     /\ ThreadAcquire(c, p)
     /\ Goto(p, "sleep3")
     /\ UNCHANGED cond
  \/ sleep_state(c, p) \/ sleep_sched(c, p) \/ sleep_wake(c, p)

sleep(c, p) ==
  \/ sleep_acquire(c, p) \/ sleep_release(c, p) \/ sleep_state(c, p)
  \/ sleep_sched(c, p) \/ sleep_wake(c, p)
yield(c, p) == yield_acquire(c, p) \/ yield_sched(c, p) \/ yield_return(c, p)
\* What a thread does by itself once a system call or a trap has started.
thread(c, p) ==
  \/ forkret(c, p) \/ wait(c, p) \/ sleep(c, p) \/ yield(c, p)
  \/ set_cond(c, p) \/ wakeup(c, p) \/ set_release(c, p)

Next ==
  \/ \E c \in CPU : scheduler(c) \/ irq_enter(c) \/ irq(c)
  \/ \E c \in CPU, p \in Proc : thread(c, p) \/ Syscall(c, p) \/ timer(c, p)

Spec == Init /\ [][Next]_vars

(* Every CPU keeps executing; a CPU that spins on a lock gets it if the    *)
(* lock is free again and again; interrupts leave a CPU time for the code  *)
(* they interrupt; the timer keeps ticking.                                *)
Fairness ==
  /\ \A c \in CPU : SF_vars(scheduler(c)) /\ SF_vars(irq(c))
  /\ \A c \in CPU, p \in Proc : SF_vars(thread(c, p)) /\ SF_vars(timer(c, p))
FairSpec == Spec /\ Fairness

-----------------------------------------------------------------------------
TypeOK ==
  /\ cpu \in [CPU -> CpuRec]
  /\ proc \in [Proc -> ProcRec]
  /\ lock \in [Lock -> CPU \cup {NoCPU}]
  /\ cond \in BOOLEAN
  /\ panicked \in {"no", "acquire", "release", "sched"}

\* No two CPUs ever execute on the same kernel stack, although yield() makes a
\* process RUNNABLE before swtch() has left its stack.
OneCPUPerStack ==
  \A c, d \in CPU : cpu[c].stack = cpu[d].stack /\ cpu[c].stack # Idle => c = d

\* c->proc tells the truth: a process is RUNNING exactly when one CPU has it
\* as its current process, except while that CPU holds its lock to switch.
RunningHasCPU ==
  \A p \in Proc :
    lock[p] = NoCPU =>
      (proc[p].state = "RUNNING" <=> \E c \in CPU : cpu[c].proc = p)

\* Types, the agreement of c->proc with the processes' states, and none of the
\* assertions of acquire, release, pop_off and sched fails.
SchedInv == TypeOK /\ RunningHasCPU /\ panicked = "no"

\* A wakeup(chan) still has process p ahead of it.
WakerAhead(p) ==
  \/ \E q \in Proc : proc[q].pc = "wakeup" /\ proc[q].scan <= p
  \/ \E c \in CPU : cpu[c].irq = "wakeup" /\ cpu[c].iscan <= p

\* No wakeup is lost between sleep()'s test of the condition and the moment
\* the process is SLEEPING: whenever a process sleeps although the condition
\* holds, a wakeup that has not reached it yet is on its way.
NoLostWakeup ==
  \A p \in Proc : proc[p].state = "SLEEPING" /\ cond => WakerAhead(p)

\* Round-robin: a process that can run gets a CPU, whatever the others do.
RunnableRuns ==
  \A p \in Proc : proc[p].state = "RUNNABLE" ~> proc[p].state = "RUNNING"

\* wakeup() reaches every sleeper: a process does not stay asleep for ever
\* once the condition it waits for has been made true.
SleepersWake ==
  \A p \in Proc : proc[p].state = "SLEEPING" /\ cond ~> proc[p].state # "SLEEPING"
=============================================================================
