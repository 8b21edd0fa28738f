---------------------------- MODULE SchedProofs -----------------------------
(* Sched, for any number of CPUs and processes: no assertion of the locks  *)
(* and of sched() fails, no kernel stack is used twice, no wakeup is lost. *)
EXTENDS Sched, TLAPS

\* Where a thread stands when it is off a CPU; where it holds its own lock,
\* and the condition's; where interrupts may come.
Parked == {"forkret", "sleep5", "yield3"}
WithOwn == Parked \cup {"sleep2", "sleep3", "sleep4", "yield2"}
WithLK == {"sleep1", "sleep2", "wakeup"}
Open == {"run", "wait", "set"}

\* The code that CPU c executes holds lk, and p->lock of its process.
OwnsLK(c) ==
  cpu[c].irq = "wakeup" \/ (cpu[c].stack \in Proc /\ proc[cpu[c].stack].pc \in WithLK)
OwnsProc(c) ==
  cpu[c].swtched /\ (cpu[c].stack = Idle \/ proc[cpu[c].stack].pc \in WithOwn)

\* A CPU holds the locks that its code owns and noff counts them; it takes
\* interrupts only where the code holds none.
CpuInv(c) ==
  /\ IF cpu[c].swtched
     THEN /\ cpu[c].scan \in Proc /\ cpu[c].proc = cpu[c].scan
          /\ cpu[c].stack \in {Idle, cpu[c].scan}
     ELSE cpu[c].proc = Idle /\ cpu[c].stack = Idle
  /\ lock[LK] = c <=> OwnsLK(c)
  /\ \A p \in Proc : lock[p] = c <=> cpu[c].proc = p /\ OwnsProc(c)
  /\ cpu[c].noff = (IF OwnsLK(c) THEN 1 ELSE 0) + (IF OwnsProc(c) THEN 1 ELSE 0)
  /\ cpu[c].intr \/ cpu[c].irq # "none" =>
       ~OwnsProc(c) /\ (cpu[c].stack = Idle \/ proc[cpu[c].stack].pc \in Open)
  /\ ~(cpu[c].intr /\ cpu[c].irq # "none")

OneProc == \A c, d \in CPU : cpu[c].proc = cpu[d].proc /\ cpu[c].proc # Idle => c = d

\* The state of a process follows from where its thread stands; a process
\* that is about to sleep, or sleeps, is ahead of every wakeup it needs.
ThreadInv(p) ==
  /\ (\A c \in CPU : cpu[c].stack # p) => proc[p].state # "RUNNING" /\ proc[p].pc \in Parked
  /\ \A c \in CPU : cpu[c].stack = p =>
       proc[p].state = CASE proc[p].pc = "sleep4" -> "SLEEPING"
                         [] proc[p].pc = "yield2" -> "RUNNABLE"
                         [] OTHER -> "RUNNING"
  /\ proc[p].state = "SLEEPING" => proc[p].pc \in {"sleep4", "sleep5"} /\ proc[p].chan
  /\ proc[p].pc \in {"yield1", "yield2", "yield3"} => proc[p].ret \in Open
  /\ proc[p].pc \in {"sleep1", "sleep2"} => ~cond
  /\ (proc[p].pc = "sleep3" \/ proc[p].state = "SLEEPING") /\ cond => WakerAhead(p)

IInv ==
  /\ TypeOK /\ panicked = "no" /\ OneProc
  /\ \A c \in CPU : CpuInv(c)
  /\ \A p \in Proc : ThreadInv(p)

-----------------------------------------------------------------------------
LEMMA InitInv == Init => IInv
<1> SUFFICES ASSUME Init PROVE IInv
  BY Zenon
<1> USE SchedAssumption DEF Init, Idle, Proc, Lock, LK
<1>1. cpu \in [CPU -> CpuRec]
  BY DEF CpuRec
<1>2. proc \in [Proc -> ProcRec]
  BY DEF ProcRec, ThreadPC
<1>3. TypeOK
  BY <1>1, <1>2, Zenon DEF TypeOK
<1>4. ASSUME NEW c \in CPU PROVE CpuInv(c)
  BY DEF CpuInv, OwnsLK, OwnsProc
<1>5. ASSUME NEW p \in Proc PROVE ThreadInv(p)
  BY DEF ThreadInv, Parked
<1> QED
  BY <1>3, <1>4, <1>5, Zenon DEF IInv, OneProc

\* The CPU of record r stays where it is when its record becomes n.
Same(n, r) ==
  /\ n.stack = r.stack /\ n.proc = r.proc /\ n.scan = r.scan
  /\ n.swtched = r.swtched /\ n.irq = r.irq /\ n.iscan = r.iscan
SameCpu(c) == Same(cpu'[c], cpu[c])

LEMMA PushOff ==
  ASSUME NEW r \in CpuRec, r.noff < 3
  PROVE  /\ push_off(r) \in CpuRec /\ Same(push_off(r), r)
         /\ push_off(r).noff = r.noff + 1 /\ ~push_off(r).intr
<1>1. r.noff + 1 \in 0 .. 3
  BY DEF CpuRec
<1>2. (IF r.noff = 0 THEN r.intr ELSE r.intena) \in BOOLEAN
  BY Zenon DEF CpuRec
<1>3. ASSUME NEW n \in 0 .. 3, NEW b \in BOOLEAN
      PROVE  [r EXCEPT !.noff = n, !.intena = b, !.intr = FALSE] \in CpuRec
  BY Zenon DEF CpuRec
<1>4. push_off(r) \in CpuRec
  BY <1>1, <1>2, <1>3, Zenon DEF push_off
<1>5. Same(push_off(r), r)
  BY Zenon DEF push_off, Same, CpuRec
<1>6. push_off(r).noff = r.noff + 1 /\ ~push_off(r).intr
  BY Zenon DEF push_off, CpuRec
<1> QED
  BY <1>4, <1>5, <1>6, Zenon

LEMMA PopOff ==
  ASSUME NEW r \in CpuRec, r.noff > 0
  PROVE  /\ pop_off(r) \in CpuRec /\ Same(pop_off(r), r)
         /\ pop_off(r).noff = r.noff - 1
<1>1. r.noff - 1 \in 0 .. 3
  BY DEF CpuRec
<1>2. (r.noff = 1 /\ r.intena) \in BOOLEAN
  BY Zenon DEF CpuRec
<1>3. ASSUME NEW n \in 0 .. 3, NEW b \in BOOLEAN
      PROVE  [r EXCEPT !.noff = n, !.intr = b] \in CpuRec
  BY Zenon DEF CpuRec
<1>4. pop_off(r) \in CpuRec
  BY <1>1, <1>2, <1>3, Zenon DEF pop_off
<1>5. Same(pop_off(r), r)
  BY Zenon DEF pop_off, Same, CpuRec
<1>6. pop_off(r).noff = r.noff - 1
  BY Zenon DEF pop_off, CpuRec
<1> QED
  BY <1>4, <1>5, <1>6, Zenon

\* p sleeps or is about to: a wakeup() that is under way must reach it.
Waits(p) == proc[p].pc = "sleep3" \/ proc[p].state = "SLEEPING"

LEMMA CpuFrame ==
  ASSUME NEW d \in CPU, CpuInv(d), cpu'[d] = cpu[d], cpu[d].stack \in Proc \cup {Idle},
         \A l \in Lock : lock'[l] = d <=> lock[l] = d,
         cpu[d].stack \in Proc => proc'[cpu[d].stack].pc = proc[cpu[d].stack].pc
  PROVE  CpuInv(d)'
<1> USE DEF Lock, LK, Idle
<1>1. OwnsLK(d)' <=> OwnsLK(d)
  BY Zenon DEF OwnsLK
<1>2. OwnsProc(d)' <=> OwnsProc(d)
  BY Zenon DEF OwnsProc, Proc
<1> QED
  BY <1>1, <1>2, Zenon DEF CpuInv, Proc

LEMMA ThreadFrame ==
  ASSUME NEW q \in Proc, ThreadInv(q), proc'[q] = proc[q],
         \A c \in CPU : cpu'[c].stack = q <=> cpu[c].stack = q,
         cond' => cond \/ (WakerAhead(q)' /\ proc[q].pc \notin {"sleep1", "sleep2"}),
         Waits(q) /\ WakerAhead(q) => WakerAhead(q)'
  PROVE  ThreadInv(q)'
BY Zenon DEF ThreadInv, Waits

LEMMA Step ==
  ASSUME IInv, NEW c \in CPU, NEW P \in SUBSET Proc, TypeOK', panicked' = "no",
         \A d \in CPU \ {c} : /\ cpu'[d] = cpu[d] /\ cpu[d].stack \notin P
                              /\ cpu'[c].proc = Idle \/ cpu[d].proc # cpu'[c].proc,
         \A l \in Lock : lock'[l] # lock[l] => lock[l] \in {c, NoCPU} /\ lock'[l] \in {c, NoCPU},
         \A q \in Proc \ P : /\ proc'[q] = proc[q]
                             /\ cpu'[c].stack = q <=> cpu[c].stack = q
                             /\ cond' => cond \/ (WakerAhead(q)' /\ proc[q].pc \notin {"sleep1", "sleep2"})
                             /\ Waits(q) /\ WakerAhead(q) => WakerAhead(q)',
         CpuInv(c)', \A p \in P : ThreadInv(p)'
  PROVE  IInv'
<1>1. ASSUME NEW d \in CPU, d # c PROVE CpuInv(d)'
  <2>1. cpu[d].stack \in Proc \cup {Idle}
    BY Zenon DEF IInv, TypeOK, CpuRec
  <2>2. CpuInv(d) /\ cpu'[d] = cpu[d] /\ cpu[d].stack \notin P
    BY <1>1, Zenon DEF IInv
  <2>3. cpu[d].stack \in Proc => proc'[cpu[d].stack].pc = proc[cpu[d].stack].pc
    BY <2>2, Zenon
  <2>4. \A l \in Lock : lock'[l] = d <=> lock[l] = d
    BY <1>1, SchedAssumption
  <2> QED
    BY <2>1, <2>2, <2>3, <2>4, CpuFrame, Zenon
<1>2. ASSUME NEW q \in Proc \ P PROVE ThreadInv(q)'
  <2>1. \A d \in CPU : cpu'[d].stack = q <=> cpu[d].stack = q
    OBVIOUS
  <2>2. ThreadInv(q)
    BY Zenon DEF IInv
  <2> QED
    BY <2>1, <2>2, ThreadFrame, Zenon
<1>3. OneProc'
  BY DEF IInv, OneProc
<1> QED
  BY <1>1, <1>2, <1>3, Zenon DEF IInv

-----------------------------------------------------------------------------
\* What is known of a thread that is about to do something.
LEMMA ThreadAt ==
  ASSUME IInv, NEW c \in CPU, NEW p \in Proc, InThread(c, p)
  PROVE  /\ cpu[c] \in CpuRec /\ proc[p] \in ProcRec /\ p # LK
         /\ cpu[c].swtched /\ cpu[c].proc = p /\ cpu[c].scan = p
         /\ lock[LK] = c <=> proc[p].pc \in WithLK
         /\ lock[p] = c <=> proc[p].pc \in WithOwn
         /\ cpu[c].noff = (IF proc[p].pc \in WithLK THEN 1 ELSE 0)
                           + (IF proc[p].pc \in WithOwn THEN 1 ELSE 0)
         /\ cpu[c].intr => proc[p].pc \in Open
         /\ \A d \in CPU \ {c} : cpu[d].proc # p /\ cpu[d].stack # p
         /\ lock[p] \in {c, NoCPU}
         /\ \A q \in Proc : q # p => lock[q] # c
<1> USE DEF Idle, Proc, LK
<1>1. cpu[c] \in CpuRec /\ proc[p] \in ProcRec /\ p # LK
  BY DEF IInv, TypeOK
<1>2. CpuInv(c) /\ cpu[c].stack = p /\ cpu[c].irq = "none"
  BY Zenon DEF IInv, InThread
<1>3. cpu[c].swtched /\ cpu[c].proc = p /\ cpu[c].scan = p
  BY <1>1, <1>2, Zenon DEF CpuInv
<1>4. (OwnsLK(c) <=> proc[p].pc \in WithLK) /\ (OwnsProc(c) <=> proc[p].pc \in WithOwn)
  BY <1>1, <1>2, <1>3, Zenon DEF OwnsLK, OwnsProc
<1>5. ASSUME NEW d \in CPU, d # c PROVE cpu[d].proc # p /\ cpu[d].stack # p
  <2>1. cpu[d].proc # p
    BY <1>1, <1>3, <1>5, Zenon DEF IInv, OneProc
  <2>2. CpuInv(d)
    BY Zenon DEF IInv
  <2> QED
    BY <2>1, <2>2, <1>1, Zenon DEF CpuInv
<1>6. lock[p] \in {c, NoCPU}
  <2>1. lock[p] \in CPU \cup {NoCPU}
    BY Zenon DEF IInv, TypeOK, Lock
  <2>2. \A d \in CPU : CpuInv(d)
    BY Zenon DEF IInv
  <2> QED
    BY <2>1, <2>2, <1>5, Zenon DEF CpuInv
<1>7. \A q \in Proc : q # p => lock[q] # c
  BY <1>2, <1>3, Zenon DEF CpuInv
<1> QED
  BY <1>1, <1>2, <1>3, <1>4, <1>5, <1>6, <1>7, Zenon DEF CpuInv

LEMMA ThreadStep ==
  ASSUME IInv, NEW c \in CPU, NEW p \in Proc, InThread(c, p), TypeOK', panicked' = "no",
         SameCpu(c), \A d \in CPU \ {c} : cpu'[d] = cpu[d],
         \A q \in Proc \ {p} : proc'[q] = proc[q] /\ lock'[q] = lock[q],
         lock'[LK] \in {c, NoCPU, lock[LK]}, lock[LK] \in {c, NoCPU, lock'[LK]},
         lock'[p] \in {c, NoCPU},
         lock'[LK] = c <=> proc'[p].pc \in WithLK,
         lock'[p] = c <=> proc'[p].pc \in WithOwn,
         cpu'[c].noff = (IF proc'[p].pc \in WithLK THEN 1 ELSE 0)
                        + (IF proc'[p].pc \in WithOwn THEN 1 ELSE 0),
         cpu'[c].intr => proc'[p].pc \in Open,
         \A q \in Proc \ {p} :
            /\ cond' => cond \/ (WakerAhead(q)' /\ proc[q].pc \notin {"sleep1", "sleep2"})
            /\ Waits(q) /\ WakerAhead(q) => WakerAhead(q)',
         ThreadInv(p)'
  PROVE  IInv'
<1>a. /\ cpu[c].swtched /\ cpu[c].proc = p /\ cpu[c].scan = p /\ p # LK
      /\ \A d \in CPU \ {c} : cpu[d].proc # p /\ cpu[d].stack # p
      /\ lock[p] \in {c, NoCPU} /\ \A q \in Proc : q # p => lock[q] # c
  BY ThreadAt
<1>b. cpu[c].stack = p /\ cpu[c].irq = "none"
  BY Zenon DEF InThread
<1>1. (OwnsLK(c)' <=> proc'[p].pc \in WithLK) /\ (OwnsProc(c)' <=> proc'[p].pc \in WithOwn)
  BY <1>a, <1>b, SMTT(30) DEF OwnsLK, OwnsProc, SameCpu, Same, Idle, LK
<1>2. CpuInv(c)'
  BY <1>1, <1>a, <1>b, SMTT(30) DEF CpuInv, SameCpu, Same, Idle, Proc, LK, Open, WithOwn, Parked
<1>3. \A l \in Lock : lock'[l] # lock[l] => lock[l] \in {c, NoCPU} /\ lock'[l] \in {c, NoCPU}
  BY <1>a, Zenon DEF Lock, LK
<1>4. \A d \in CPU \ {c} : /\ cpu'[d] = cpu[d] /\ cpu[d].stack \notin {p}
                           /\ cpu'[c].proc = Idle \/ cpu[d].proc # cpu'[c].proc
  BY <1>a DEF SameCpu, Same
<1>5. \A q \in Proc \ {p} : /\ proc'[q] = proc[q]
                            /\ cpu'[c].stack = q <=> cpu[c].stack = q
                            /\ cond' => cond \/ (WakerAhead(q)' /\ proc[q].pc \notin {"sleep1", "sleep2"})
                            /\ Waits(q) /\ WakerAhead(q) => WakerAhead(q)'
  BY Zenon DEF SameCpu, Same
<1>6. {p} \in SUBSET Proc /\ \A q \in {p} : ThreadInv(q)'
  BY Zenon
<1> QED
  BY <1>2, <1>3, <1>4, <1>5, <1>6, Step, Zenon

\* A wakeup() that is under way goes on whoever else moves.
LEMMA WakersStay ==
  ASSUME NEW q \in Proc, WakerAhead(q),
         \A r \in Proc : proc[r].pc = "wakeup" => proc'[r].pc = "wakeup" /\ proc'[r].scan = proc[r].scan,
         \A d \in CPU : cpu'[d].irq = cpu[d].irq /\ cpu'[d].iscan = cpu[d].iscan
  PROVE  WakerAhead(q)'
<1>1. CASE \E r \in Proc : proc[r].pc = "wakeup" /\ proc[r].scan <= q
  BY <1>1, Zenon DEF WakerAhead
<1>2. CASE \E d \in CPU : cpu[d].irq = "wakeup" /\ cpu[d].iscan <= q
  BY <1>2, Zenon DEF WakerAhead
<1> QED
  BY <1>1, <1>2, Zenon DEF WakerAhead

\* A step of a thread that is no waker and makes the condition true for nobody.
LEMMA QuietStep ==
  ASSUME IInv, NEW c \in CPU, NEW p \in Proc, InThread(c, p), TypeOK', panicked' = "no",
         SameCpu(c), \A d \in CPU \ {c} : cpu'[d] = cpu[d],
         \A q \in Proc \ {p} : proc'[q] = proc[q] /\ lock'[q] = lock[q],
         lock'[LK] \in {c, NoCPU, lock[LK]}, lock[LK] \in {c, NoCPU, lock'[LK]},
         lock'[p] \in {c, NoCPU},
         lock'[LK] = c <=> proc'[p].pc \in WithLK,
         lock'[p] = c <=> proc'[p].pc \in WithOwn,
         cpu'[c].noff = (IF proc'[p].pc \in WithLK THEN 1 ELSE 0)
                        + (IF proc'[p].pc \in WithOwn THEN 1 ELSE 0),
         cpu'[c].intr => proc'[p].pc \in Open,
         cond' => cond, proc[p].pc # "wakeup",
         ThreadInv(p)'
  PROVE  IInv'
<1>1. ASSUME NEW q \in Proc, WakerAhead(q) PROVE WakerAhead(q)'
  <2>1. \A d \in CPU : cpu'[d].irq = cpu[d].irq /\ cpu'[d].iscan = cpu[d].iscan
    BY Zenon DEF SameCpu, Same
  <2>2. \A r \in Proc : proc[r].pc = "wakeup" => proc'[r].pc = "wakeup" /\ proc'[r].scan = proc[r].scan
    BY Zenon
  <2> QED
    BY <1>1, <2>1, <2>2, WakersStay, Zenon
<1>2. \A q \in Proc \ {p} :
        /\ cond' => cond \/ (WakerAhead(q)' /\ proc[q].pc \notin {"sleep1", "sleep2"})
        /\ Waits(q) /\ WakerAhead(q) => WakerAhead(q)'
  BY <1>1, Zenon
<1> QED
  BY <1>2, ThreadStep, Zenon

-----------------------------------------------------------------------------
LEMMA CpuUpdate ==
  ASSUME TypeOK, NEW c \in CPU, NEW R \in CpuRec, cpu' = [cpu EXCEPT ![c] = R]
  PROVE  cpu' \in [CPU -> CpuRec] /\ cpu'[c] = R /\ \A d \in CPU \ {c} : cpu'[d] = cpu[d]
BY Zenon DEF TypeOK

LEMMA ProcUpdate ==
  ASSUME TypeOK, NEW p \in Proc, NEW R \in ProcRec, proc' = [proc EXCEPT ![p] = R]
  PROVE  proc' \in [Proc -> ProcRec] /\ proc'[p] = R /\ \A q \in Proc \ {p} : proc'[q] = proc[q]
BY Zenon DEF TypeOK

LEMMA GotoType ==
  ASSUME TypeOK, NEW p \in Proc, NEW l \in ThreadPC, Goto(p, l)
  PROVE  /\ proc' \in [Proc -> ProcRec] /\ \A q \in Proc \ {p} : proc'[q] = proc[q]
         /\ proc'[p].pc = l /\ proc'[p].state = proc[p].state /\ proc'[p].chan = proc[p].chan
         /\ proc'[p].ret = proc[p].ret /\ proc'[p].scan = proc[p].scan
<1>0. proc[p] \in ProcRec
  BY Zenon DEF TypeOK
<1>1. [proc[p] EXCEPT !.pc = l] \in ProcRec
  BY <1>0, Zenon DEF ProcRec
<1>2. proc' = [proc EXCEPT ![p] = [proc[p] EXCEPT !.pc = l]]
  BY Zenon DEF Goto
<1>3. proc' \in [Proc -> ProcRec] /\ proc'[p] = [proc[p] EXCEPT !.pc = l]
      /\ \A q \in Proc \ {p} : proc'[q] = proc[q]
  BY <1>1, <1>2, ProcUpdate, Zenon
<1> QED
  BY <1>0, <1>3, Zenon DEF ProcRec

\* What a step of thread p on CPU c makes of the locks, when it sets l to v
LEMMA LockUpdate ==
  ASSUME TypeOK, NEW p \in Proc, NEW l \in {LK, p}, NEW v \in CPU \cup {NoCPU}, lock' = [lock EXCEPT ![l] = v]
  PROVE  /\ lock' \in [Lock -> CPU \cup {NoCPU}] /\ \A q \in Proc \ {p} : lock'[q] = lock[q]
         /\ l = LK => lock'[LK] = v /\ lock'[p] = lock[p]
         /\ l = p => lock'[p] = v /\ lock'[LK] = lock[LK]
BY DEF TypeOK, Lock, LK, Proc

LEMMA ForkretInv == ASSUME IInv, NEW c \in CPU, NEW p \in Proc, forkret(c, p) PROVE IInv'
<1>0. TypeOK /\ ThreadInv(p) /\ InThread(c, p) /\ proc[p].pc = "forkret"
  BY Zenon DEF IInv, forkret
<1>1. /\ cpu[c] \in CpuRec /\ cpu[c].stack = p /\ lock[LK] # c /\ lock[p] = c
      /\ cpu[c].noff = 1 /\ ~cpu[c].intr
  BY <1>0, ThreadAt DEF WithLK, WithOwn, Parked, Open, InThread
<1>2. panicked' = "no"
  BY <1>1 DEF forkret, Check, Holding, CanPop
<1>3. pop_off(cpu[c]) \in CpuRec /\ Same(pop_off(cpu[c]), cpu[c]) /\ pop_off(cpu[c]).noff = 0
  BY <1>1, PopOff
<1> DEFINE R == [pop_off(cpu[c]) EXCEPT !.intr = TRUE]
<1>4. R \in CpuRec
  BY <1>3, Zenon DEF CpuRec
<1>5. Same(R, cpu[c]) /\ R.noff = 0
  BY <1>3, Zenon DEF Same, CpuRec
<1>6. cpu' = [cpu EXCEPT ![c] = R] /\ lock' = [lock EXCEPT ![p] = NoCPU] /\ cond' = cond
  BY Zenon DEF forkret
<1> HIDE DEF R
<1>7. cpu' \in [CPU -> CpuRec] /\ cpu'[c] = R /\ \A d \in CPU \ {c} : cpu'[d] = cpu[d]
  BY <1>0, <1>4, <1>6, CpuUpdate, Zenon
<1>8. /\ proc' \in [Proc -> ProcRec] /\ \A q \in Proc \ {p} : proc'[q] = proc[q]
      /\ proc'[p].pc = "run" /\ proc'[p].state = proc[p].state
  BY <1>0, GotoType, Zenon DEF ThreadPC, forkret
<1>9. /\ lock' \in [Lock -> CPU \cup {NoCPU}] /\ \A q \in Proc \ {p} : lock'[q] = lock[q]
      /\ lock'[p] = NoCPU /\ lock'[LK] = lock[LK]
  BY <1>0, <1>6, LockUpdate, Zenon
<1>10. TypeOK'
  BY <1>0, <1>2, <1>6, <1>7, <1>8, <1>9, Zenon DEF TypeOK
<1>11. ThreadInv(p)'
  BY <1>0, <1>1, <1>5, <1>7, <1>8, Zenon DEF ThreadInv, Same
<1> QED
  BY <1>0, <1>1, <1>2, <1>5, <1>6, <1>7, <1>8, <1>9, <1>10, <1>11, QuietStep, SchedAssumption
     DEF SameCpu, WithLK, WithOwn, Parked, Open

LEMMA SyscallInv == ASSUME IInv, NEW c \in CPU, NEW p \in Proc, Syscall(c, p) PROVE IInv'
<1>0. TypeOK /\ ThreadInv(p) /\ InThread(c, p) /\ proc[p].pc = "run" /\ panicked = "no"
  BY Zenon DEF IInv, Syscall
<1>1. cpu[c].stack = p /\ lock[LK] # c /\ lock[p] = NoCPU /\ cpu[c].noff = 0
  BY <1>0, ThreadAt DEF WithLK, WithOwn, Parked, InThread
<1>2. PICK l \in {"wait", "set"} : Goto(p, l)
  BY Zenon DEF Syscall
<1>3. /\ proc' \in [Proc -> ProcRec] /\ \A q \in Proc \ {p} : proc'[q] = proc[q]
      /\ proc'[p].pc = l /\ proc'[p].state = proc[p].state
  BY <1>0, <1>2, GotoType, Zenon DEF ThreadPC
<1>4. cpu' = cpu /\ lock' = lock /\ cond' = cond /\ panicked' = panicked
  BY Zenon DEF Syscall
<1>5. TypeOK'
  BY <1>0, <1>3, <1>4, Zenon DEF TypeOK
<1>6. ThreadInv(p)'
  BY <1>0, <1>1, <1>3, <1>4, Zenon DEF ThreadInv
<1> QED
  BY <1>0, <1>1, <1>2, <1>3, <1>4, <1>5, <1>6, QuietStep, SchedAssumption
     DEF SameCpu, Same, WithLK, WithOwn, Parked, Open

LEMMA Acquires ==
  ASSUME TypeOK, NEW c \in CPU, NEW p \in Proc, NEW l \in {LK, p}, ThreadAcquire(c, l),
         lock[l] # c, cpu[c].noff < 2
  PROVE  /\ panicked' = "no" /\ lock[l] = NoCPU
         /\ cpu' \in [CPU -> CpuRec] /\ \A d \in CPU \ {c} : cpu'[d] = cpu[d]
         /\ SameCpu(c) /\ cpu'[c].noff = cpu[c].noff + 1 /\ ~cpu'[c].intr
         /\ lock' \in [Lock -> CPU \cup {NoCPU}] /\ \A q \in Proc \ {p} : lock'[q] = lock[q]
         /\ l = LK => lock'[LK] = c /\ lock'[p] = lock[p]
         /\ l = p => lock'[p] = c /\ lock'[LK] = lock[LK]
<1>1. cpu[c] \in CpuRec
  BY Zenon DEF TypeOK
<1>2. /\ push_off(cpu[c]) \in CpuRec /\ Same(push_off(cpu[c]), cpu[c])
      /\ push_off(cpu[c]).noff = cpu[c].noff + 1 /\ ~push_off(cpu[c]).intr
  <2>1. cpu[c].noff < 3
    BY <1>1 DEF CpuRec
  <2> QED
    BY <1>1, <2>1, PushOff, Zenon
<1>3. /\ cpu' \in [CPU -> CpuRec] /\ cpu'[c] = push_off(cpu[c])
      /\ \A d \in CPU \ {c} : cpu'[d] = cpu[d]
  <2>1. cpu' = [cpu EXCEPT ![c] = push_off(cpu[c])]
    BY Zenon DEF ThreadAcquire
  <2> QED
    BY <1>2, <2>1, CpuUpdate, Zenon
<1>4. panicked' = "no" /\ lock[l] = NoCPU /\ lock' = [lock EXCEPT ![l] = c]
  BY Zenon DEF ThreadAcquire, Check, Holding, Acquirable
<1> QED
  BY <1>2, <1>3, <1>4, LockUpdate, Zenon DEF SameCpu

LEMMA Releases ==
  ASSUME TypeOK, NEW c \in CPU, NEW p \in Proc, NEW l \in {LK, p}, ThreadRelease(c, l),
         lock[l] = c, cpu[c].noff > 0, ~cpu[c].intr
  PROVE  /\ panicked' = "no"
         /\ cpu' \in [CPU -> CpuRec] /\ \A d \in CPU \ {c} : cpu'[d] = cpu[d]
         /\ SameCpu(c) /\ cpu'[c].noff = cpu[c].noff - 1
         /\ cpu'[c].intr => cpu[c].noff = 1
         /\ lock' \in [Lock -> CPU \cup {NoCPU}] /\ \A q \in Proc \ {p} : lock'[q] = lock[q]
         /\ l = LK => lock'[LK] = NoCPU /\ lock'[p] = lock[p]
         /\ l = p => lock'[p] = NoCPU /\ lock'[LK] = lock[LK]
<1>1. cpu[c] \in CpuRec
  BY Zenon DEF TypeOK
<1>2. /\ pop_off(cpu[c]) \in CpuRec /\ Same(pop_off(cpu[c]), cpu[c])
      /\ pop_off(cpu[c]).noff = cpu[c].noff - 1
  BY <1>1, PopOff, Zenon
<1>3. pop_off(cpu[c]).intr => cpu[c].noff = 1
  BY <1>1, Zenon DEF pop_off, CpuRec
<1>4. /\ cpu' \in [CPU -> CpuRec] /\ cpu'[c] = pop_off(cpu[c])
      /\ \A d \in CPU \ {c} : cpu'[d] = cpu[d]
  <2>1. cpu' = [cpu EXCEPT ![c] = pop_off(cpu[c])]
    BY Zenon DEF ThreadRelease
  <2> QED
    BY <1>2, <2>1, CpuUpdate, Zenon
<1>5. panicked' = "no"
  <2>1. cpu[c].noff >= 1
    BY <1>1 DEF CpuRec
  <2> QED
    BY <2>1, Zenon DEF ThreadRelease, Check, Holding, CanPop
<1>6. lock' = [lock EXCEPT ![l] = NoCPU]
  BY Zenon DEF ThreadRelease
<1> QED
  BY <1>2, <1>3, <1>4, <1>5, <1>6, LockUpdate, Zenon DEF SameCpu

LEMMA SleepAcquireInv == ASSUME IInv, NEW c \in CPU, NEW p \in Proc, sleep_acquire(c, p) PROVE IInv'
<1>0. TypeOK /\ ThreadInv(p) /\ InThread(c, p) /\ proc[p].pc = "sleep1" /\ ThreadAcquire(c, p) /\ cond' = cond
  BY Zenon DEF IInv, sleep_acquire
<1>1. cpu[c].stack = p /\ lock[LK] = c /\ lock[p] # c /\ cpu[c].noff = 1
  BY <1>0, ThreadAt DEF WithLK, WithOwn, Parked, InThread
<1>2. /\ panicked' = "no"
      /\ cpu' \in [CPU -> CpuRec] /\ \A d \in CPU \ {c} : cpu'[d] = cpu[d]
      /\ SameCpu(c) /\ cpu'[c].noff = 2 /\ ~cpu'[c].intr
      /\ lock' \in [Lock -> CPU \cup {NoCPU}] /\ \A q \in Proc \ {p} : lock'[q] = lock[q]
      /\ lock'[p] = c /\ lock'[LK] = c
  <2>1. cpu[c].noff < 2 /\ p \in {LK, p}
    BY <1>1, SMTT(30)
  <2> QED
    BY <1>0, <1>1, <2>1, Acquires
<1>3. /\ proc' \in [Proc -> ProcRec] /\ \A q \in Proc \ {p} : proc'[q] = proc[q]
      /\ proc'[p].pc = "sleep2" /\ proc'[p].state = proc[p].state
  BY <1>0, GotoType, Zenon DEF ThreadPC, sleep_acquire
<1>4. TypeOK'
  BY <1>0, <1>2, <1>3, Zenon DEF TypeOK
<1>5. ThreadInv(p)'
  BY <1>0, <1>1, <1>2, <1>3, Zenon DEF ThreadInv, SameCpu, Same
<1> QED
  BY <1>0, <1>1, <1>2, <1>3, <1>4, <1>5, QuietStep, SchedAssumption DEF WithLK, WithOwn, Parked, Open

LEMMA SleepReleaseInv == ASSUME IInv, NEW c \in CPU, NEW p \in Proc, sleep_release(c, p) PROVE IInv'
<1>0. TypeOK /\ ThreadInv(p) /\ InThread(c, p) /\ proc[p].pc = "sleep2" /\ ThreadRelease(c, LK) /\ cond' = cond
  BY Zenon DEF IInv, sleep_release
<1>1. cpu[c].stack = p /\ lock[LK] = c /\ lock[p] = c /\ cpu[c].noff = 2 /\ ~cpu[c].intr
  BY <1>0, ThreadAt, SMTT(30) DEF WithLK, WithOwn, Parked, InThread, Open
<1>2. /\ panicked' = "no"
      /\ cpu' \in [CPU -> CpuRec] /\ \A d \in CPU \ {c} : cpu'[d] = cpu[d]
      /\ SameCpu(c) /\ cpu'[c].noff = 1 /\ ~cpu'[c].intr
      /\ lock' \in [Lock -> CPU \cup {NoCPU}] /\ \A q \in Proc \ {p} : lock'[q] = lock[q]
      /\ lock'[p] = c /\ lock'[LK] = NoCPU
  BY <1>0, <1>1, Releases, SMTT(30)
<1>3. /\ proc' \in [Proc -> ProcRec] /\ \A q \in Proc \ {p} : proc'[q] = proc[q]
      /\ proc'[p].pc = "sleep3" /\ proc'[p].state = proc[p].state
  BY <1>0, GotoType, Zenon DEF ThreadPC, sleep_release
<1>4. TypeOK'
  BY <1>0, <1>2, <1>3, Zenon DEF TypeOK
<1>5. ThreadInv(p)'
  BY <1>0, <1>1, <1>2, <1>3, SMTT(30) DEF ThreadInv, SameCpu, Same
<1> QED
  BY <1>0, <1>1, <1>2, <1>3, <1>4, <1>5, QuietStep, SchedAssumption, SMTT(30) DEF WithLK, WithOwn, Parked, Open

\* Whoever made the condition true since lk was released is still on its way to p.
LEMMA SleepStateInv == ASSUME IInv, NEW c \in CPU, NEW p \in Proc, sleep_state(c, p) PROVE IInv'
<1>0. TypeOK /\ ThreadInv(p) /\ InThread(c, p) /\ proc[p].pc = "sleep3" /\ panicked = "no"
  BY Zenon DEF IInv, sleep_state
<1>1. /\ cpu[c].stack = p /\ lock[LK] # c /\ lock[p] = c /\ cpu[c].noff = 1 /\ ~cpu[c].intr
      /\ proc[p] \in ProcRec /\ \A d \in CPU \ {c} : cpu[d].stack # p
  BY <1>0, ThreadAt DEF WithLK, WithOwn, Parked, InThread, Open
<1> DEFINE R == [proc[p] EXCEPT !.chan = TRUE, !.state = "SLEEPING", !.pc = "sleep4"]
<1>2. R \in ProcRec
  BY <1>1, ZenonT(40) DEF ProcRec, ThreadPC
<1>3. R.chan = TRUE /\ R.state = "SLEEPING" /\ R.pc = "sleep4"
  BY <1>1, Zenon DEF ProcRec
<1>4. proc' = [proc EXCEPT ![p] = R] /\ cpu' = cpu /\ lock' = lock /\ cond' = cond /\ panicked' = panicked
  BY <1>0, Zenon DEF sleep_state, TypeOK
<1> HIDE DEF R
<1>5. proc' \in [Proc -> ProcRec] /\ proc'[p] = R /\ \A q \in Proc \ {p} : proc'[q] = proc[q]
  BY <1>0, <1>2, <1>4, ProcUpdate, Zenon
<1>6. TypeOK'
  BY <1>0, <1>4, <1>5, Zenon DEF TypeOK
<1>7. WakerAhead(p) => WakerAhead(p)'
  <2>1. \A r \in Proc : proc[r].pc = "wakeup" => proc'[r].pc = "wakeup" /\ proc'[r].scan = proc[r].scan
    BY <1>0, <1>5, Zenon
  <2> QED
    BY <2>1, <1>4, WakersStay, Zenon
<1>8. ThreadInv(p)'
  BY <1>0, <1>1, <1>3, <1>4, <1>5, <1>7, Zenon DEF ThreadInv
<1>9. SameCpu(c)
  BY <1>4, Zenon DEF SameCpu, Same
<1> QED
  BY <1>0, <1>1, <1>3, <1>4, <1>5, <1>6, <1>8, <1>9, QuietStep, SchedAssumption DEF WithLK, WithOwn, Parked, Open

LEMMA WaitInv == ASSUME IInv, NEW c \in CPU, NEW p \in Proc, wait(c, p) PROVE IInv'
<1>0. TypeOK /\ ThreadInv(p) /\ InThread(c, p) /\ proc[p].pc = "wait"
  BY Zenon DEF IInv, wait
<1>1. /\ cpu[c].stack = p /\ lock[LK] # c /\ lock[p] = NoCPU /\ cpu[c].noff = 0 /\ cpu[c] \in CpuRec
  BY <1>0, ThreadAt DEF WithLK, WithOwn, Parked, InThread
<1>2. panicked' = "no"
  BY <1>1, Zenon DEF wait, Check, Holding
<1>3. CASE cond
  <2> DEFINE U == push_off(cpu[c])
             R == pop_off(U)
  <2>1. U \in CpuRec /\ Same(U, cpu[c]) /\ U.noff = 1
    BY <1>1, PushOff
  <2>2. cpu' = [cpu EXCEPT ![c] = R] /\ lock' = lock /\ cond' = FALSE /\ Goto(p, "run")
    BY <1>3, Zenon DEF wait
  <2> HIDE DEF U
  <2>3. R \in CpuRec /\ Same(R, U) /\ R.noff = 0
    BY <2>1, PopOff
  <2> HIDE DEF R
  <2>4. cpu' \in [CPU -> CpuRec] /\ cpu'[c] = R /\ \A d \in CPU \ {c} : cpu'[d] = cpu[d]
    BY <1>0, <2>2, <2>3, CpuUpdate, Zenon
  <2>5. SameCpu(c) /\ cpu'[c].noff = 0
    BY <2>1, <2>3, <2>4, Zenon DEF SameCpu, Same
  <2>6. /\ proc' \in [Proc -> ProcRec] /\ \A q \in Proc \ {p} : proc'[q] = proc[q]
        /\ proc'[p].pc = "run" /\ proc'[p].state = proc[p].state
    BY <1>0, <2>2, GotoType, Zenon DEF ThreadPC
  <2>7. TypeOK'
    BY <1>0, <1>2, <2>2, <2>4, <2>6, Zenon DEF TypeOK
  <2>8. ThreadInv(p)'
    BY <1>0, <1>1, <2>5, <2>6, Zenon DEF ThreadInv, SameCpu, Same
  <2> QED
    BY <1>0, <1>1, <1>2, <2>2, <2>4, <2>5, <2>6, <2>7, <2>8, QuietStep, SchedAssumption, SMTT(30)
       DEF WithLK, WithOwn, Parked, Open
<1>4. CASE ~cond
  <2>1. ThreadAcquire(c, LK) /\ Goto(p, "sleep1") /\ cond' = cond
    BY <1>4, Zenon DEF wait, ThreadAcquire
  <2>2. /\ cpu' \in [CPU -> CpuRec] /\ \A d \in CPU \ {c} : cpu'[d] = cpu[d]
        /\ SameCpu(c) /\ cpu'[c].noff = 1 /\ ~cpu'[c].intr /\ lock[LK] = NoCPU
        /\ lock' \in [Lock -> CPU \cup {NoCPU}] /\ \A q \in Proc \ {p} : lock'[q] = lock[q]
        /\ lock'[LK] = c /\ lock'[p] = NoCPU
    <3>1. cpu[c].noff < 2 /\ LK \in {LK, p}
      BY <1>1, SMTT(30)
    <3> QED
      BY <1>0, <1>1, <2>1, <3>1, Acquires
  <2>3. /\ proc' \in [Proc -> ProcRec] /\ \A q \in Proc \ {p} : proc'[q] = proc[q]
        /\ proc'[p].pc = "sleep1" /\ proc'[p].state = proc[p].state
    BY <1>0, <2>1, GotoType, Zenon DEF ThreadPC
  <2>4. TypeOK'
    BY <1>0, <1>2, <2>1, <2>2, <2>3, Zenon DEF TypeOK
  <2>5. ThreadInv(p)'
    BY <1>0, <1>1, <1>4, <2>1, <2>2, <2>3 DEF ThreadInv, SameCpu, Same
  <2> QED
    BY <1>0, <1>1, <1>2, <2>1, <2>2, <2>3, <2>4, <2>5, QuietStep, SchedAssumption, SMTT(30)
       DEF WithLK, WithOwn, Parked, Open
<1> QED
  BY <1>3, <1>4, Zenon

----

\* sched() has returned on CPU c, which becomes R.
LEMMA BackOnCpu ==
  ASSUME IInv, NEW c \in CPU, NEW p \in Proc, InThread(c, p), proc[p].pc \in {"sleep5", "yield3"}
  PROVE  /\ TypeOK /\ ThreadInv(p) /\ proc[p] \in ProcRec /\ proc[p].state = "RUNNING"
         /\ cpu[c].stack = p /\ lock[LK] # c /\ lock[p] = c
         /\ SchedReturns(c, p) => /\ panicked' = "no"
                                  /\ lock' \in [Lock -> CPU \cup {NoCPU}]
                                  /\ \A q \in Proc \ {p} : lock'[q] = lock[q]
                                  /\ lock'[p] = NoCPU /\ lock'[LK] = lock[LK]
         /\ LET r == pop_off([cpu[c] EXCEPT !.intena = proc[p].intena]) IN
              r \in CpuRec /\ Same(r, cpu[c]) /\ r.noff = 0
<1>0. TypeOK /\ ThreadInv(p)
  BY Zenon DEF IInv
<1>1. /\ cpu[c].stack = p /\ lock[LK] # c /\ lock[p] = c /\ cpu[c].noff = 1 /\ ~cpu[c].intr
      /\ cpu[c] \in CpuRec /\ proc[p] \in ProcRec
  BY ThreadAt DEF WithLK, WithOwn, Parked, Open, InThread
<1>2. proc[p].state = "RUNNING"
  BY <1>0, <1>1, Zenon DEF ThreadInv
<1>3. ASSUME SchedReturns(c, p)
      PROVE  /\ panicked' = "no" /\ lock' \in [Lock -> CPU \cup {NoCPU}]
             /\ \A q \in Proc \ {p} : lock'[q] = lock[q]
             /\ lock'[p] = NoCPU /\ lock'[LK] = lock[LK]
  <2>1. panicked' = "no" /\ lock' = [lock EXCEPT ![p] = NoCPU]
    BY <1>1, <1>3 DEF SchedReturns, Check, Holding, CanPop
  <2> QED
    BY <1>0, <2>1, LockUpdate, Zenon
<1> DEFINE U == [cpu[c] EXCEPT !.intena = proc[p].intena]
<1>4. U \in CpuRec
  BY <1>1, Zenon DEF CpuRec, ProcRec
<1>5. Same(U, cpu[c]) /\ U.noff = 1
  BY <1>1, Zenon DEF Same, CpuRec
<1> HIDE DEF U
<1>6. pop_off(U) \in CpuRec /\ Same(pop_off(U), U) /\ pop_off(U).noff = 0
  BY <1>4, <1>5, PopOff
<1>7. Same(pop_off(U), cpu[c])
  BY <1>5, <1>6, Zenon DEF Same
<1> QED
  BY <1>0, <1>1, <1>2, <1>3, <1>6, <1>7, Zenon DEF U

LEMMA SleepWakeInv == ASSUME IInv, NEW c \in CPU, NEW p \in Proc, sleep_wake(c, p) PROVE IInv'
<1>0. InThread(c, p) /\ proc[p].pc = "sleep5" /\ SchedReturns(c, p) /\ cond' = cond
  BY Zenon DEF sleep_wake
<1> DEFINE r == pop_off([cpu[c] EXCEPT !.intena = proc[p].intena])
           R == [proc[p] EXCEPT !.chan = FALSE, !.pc = "wait"]
<1>1. /\ TypeOK /\ proc[p] \in ProcRec /\ proc[p].state = "RUNNING"
      /\ cpu[c].stack = p /\ lock[LK] # c /\ lock[p] = c /\ panicked' = "no"
      /\ lock' \in [Lock -> CPU \cup {NoCPU}] /\ \A q \in Proc \ {p} : lock'[q] = lock[q]
      /\ lock'[p] = NoCPU /\ lock'[LK] = lock[LK]
      /\ r \in CpuRec /\ Same(r, cpu[c]) /\ r.noff = 0
  BY <1>0, BackOnCpu
<1>2. R \in ProcRec
  BY <1>1, Zenon DEF ProcRec, ThreadPC
<1>3. R.state = "RUNNING" /\ R.pc = "wait"
  BY <1>1, Zenon DEF ProcRec
<1>4. cpu' = [cpu EXCEPT ![c] = r] /\ proc' = [proc EXCEPT ![p] = R]
  BY <1>1, Zenon DEF sleep_wake, TypeOK
<1> HIDE DEF r, R
<1>5. /\ cpu' \in [CPU -> CpuRec] /\ cpu'[c] = r /\ \A d \in CPU \ {c} : cpu'[d] = cpu[d]
  BY <1>1, <1>4, CpuUpdate, Zenon
<1>6. proc' \in [Proc -> ProcRec] /\ proc'[p] = R /\ \A q \in Proc \ {p} : proc'[q] = proc[q]
  BY <1>1, <1>2, <1>4, ProcUpdate, Zenon
<1>7. TypeOK'
  BY <1>0, <1>1, <1>5, <1>6, Zenon DEF TypeOK
<1>8. ThreadInv(p)'
  BY <1>1, <1>3, <1>5, <1>6, Zenon DEF ThreadInv, Same
<1>9. SameCpu(c)
  BY <1>1, <1>5, Zenon DEF SameCpu
<1> QED
  BY <1>0, <1>1, <1>3, <1>5, <1>6, <1>7, <1>8, <1>9, QuietStep, SchedAssumption
     DEF WithLK, WithOwn, Parked, Open

LEMMA YieldReturnInv == ASSUME IInv, NEW c \in CPU, NEW p \in Proc, yield_return(c, p) PROVE IInv'
<1>0. InThread(c, p) /\ proc[p].pc = "yield3" /\ SchedReturns(c, p) /\ cond' = cond /\ Goto(p, proc[p].ret)
  BY Zenon DEF yield_return
<1> DEFINE r == pop_off([cpu[c] EXCEPT !.intena = proc[p].intena])
           R == [r EXCEPT !.intr = TRUE]
<1>1. /\ TypeOK /\ ThreadInv(p) /\ proc[p] \in ProcRec /\ proc[p].state = "RUNNING"
      /\ cpu[c].stack = p /\ lock[LK] # c /\ lock[p] = c /\ panicked' = "no"
      /\ lock' \in [Lock -> CPU \cup {NoCPU}] /\ \A q \in Proc \ {p} : lock'[q] = lock[q]
      /\ lock'[p] = NoCPU /\ lock'[LK] = lock[LK]
      /\ r \in CpuRec /\ Same(r, cpu[c]) /\ r.noff = 0
  BY <1>0, BackOnCpu
<1>2. cpu' = [cpu EXCEPT ![c] = R]
  BY Zenon DEF yield_return
<1> HIDE DEF r
<1>3. R \in CpuRec
  BY <1>1, Zenon DEF CpuRec
<1>4. Same(R, cpu[c]) /\ R.noff = 0
  BY <1>1, Zenon DEF Same, CpuRec
<1> HIDE DEF R
<1>5. /\ cpu' \in [CPU -> CpuRec] /\ cpu'[c] = R /\ \A d \in CPU \ {c} : cpu'[d] = cpu[d]
  BY <1>1, <1>2, <1>3, CpuUpdate, Zenon
<1>6. proc[p].ret \in Open /\ proc[p].ret \in ThreadPC
  BY <1>0, <1>1, Zenon DEF ThreadInv, Open, ThreadPC
<1>7. /\ proc' \in [Proc -> ProcRec] /\ \A q \in Proc \ {p} : proc'[q] = proc[q]
      /\ proc'[p].pc \in Open /\ proc'[p].state = "RUNNING"
  BY <1>0, <1>1, <1>6, GotoType, Zenon
<1>8. TypeOK'
  BY <1>0, <1>1, <1>5, <1>7, Zenon DEF TypeOK
<1>9. ThreadInv(p)'
  BY <1>1, <1>4, <1>5, <1>7, Zenon DEF ThreadInv, Same, Open
<1>10. SameCpu(c)
  BY <1>4, <1>5, Zenon DEF SameCpu
<1> QED
  BY <1>0, <1>1, <1>4, <1>5, <1>7, <1>8, <1>9, <1>10, QuietStep, SchedAssumption
     DEF WithLK, WithOwn, Parked, Open

LEMMA YieldAcquireInv == ASSUME IInv, NEW c \in CPU, NEW p \in Proc, yield_acquire(c, p) PROVE IInv'
<1>0. TypeOK /\ ThreadInv(p) /\ InThread(c, p) /\ proc[p].pc = "yield1" /\ ThreadAcquire(c, p) /\ cond' = cond
  BY Zenon DEF IInv, yield_acquire
<1>1. cpu[c].stack = p /\ lock[LK] # c /\ lock[p] # c /\ cpu[c].noff = 0 /\ proc[p] \in ProcRec
  BY <1>0, ThreadAt DEF WithLK, WithOwn, Parked, InThread
<1>2. /\ panicked' = "no"
      /\ cpu' \in [CPU -> CpuRec] /\ \A d \in CPU \ {c} : cpu'[d] = cpu[d]
      /\ SameCpu(c) /\ cpu'[c].noff = 1 /\ ~cpu'[c].intr
      /\ lock' \in [Lock -> CPU \cup {NoCPU}] /\ \A q \in Proc \ {p} : lock'[q] = lock[q]
      /\ lock'[p] = c /\ lock'[LK] = lock[LK]
  <2>1. cpu[c].noff < 2 /\ p \in {LK, p}
    BY <1>1
  <2> QED
    BY <1>0, <1>1, <2>1, Acquires
<1> DEFINE R == [proc[p] EXCEPT !.state = "RUNNABLE", !.pc = "yield2"]
<1>3. R \in ProcRec
  BY <1>1, ZenonT(40) DEF ProcRec, ThreadPC
<1>4. R.state = "RUNNABLE" /\ R.pc = "yield2" /\ R.ret = proc[p].ret
  BY <1>1, Zenon DEF ProcRec
<1>5. proc' = [proc EXCEPT ![p] = R]
  BY <1>0, Zenon DEF yield_acquire, TypeOK
<1> HIDE DEF R
<1>6. proc' \in [Proc -> ProcRec] /\ proc'[p] = R /\ \A q \in Proc \ {p} : proc'[q] = proc[q]
  BY <1>0, <1>3, <1>5, ProcUpdate, Zenon
<1>7. TypeOK'
  BY <1>0, <1>2, <1>6, Zenon DEF TypeOK
<1>8. ThreadInv(p)'
  BY <1>0, <1>1, <1>2, <1>4, <1>6, Zenon DEF ThreadInv, SameCpu, Same
<1> QED
  BY <1>0, <1>1, <1>2, <1>4, <1>6, <1>7, <1>8, QuietStep, SchedAssumption DEF WithLK, WithOwn, Parked, Open

LEMMA TimerInv == ASSUME IInv, NEW c \in CPU, NEW p \in Proc, timer(c, p) PROVE IInv'
<1>0. TypeOK /\ ThreadInv(p) /\ InThread(c, p) /\ cpu[c].intr /\ panicked = "no"
  BY Zenon DEF IInv, timer
<1>1. /\ cpu[c].stack = p /\ lock[LK] # c /\ lock[p] = NoCPU /\ cpu[c].noff = 0 /\ cpu[c] \in CpuRec
      /\ proc[p] \in ProcRec /\ proc[p].pc \in Open
  BY <1>0, ThreadAt DEF WithLK, WithOwn, Parked, Open, InThread
<1> DEFINE R == [proc[p] EXCEPT !.ret = proc[p].pc, !.pc = "yield1"]
           r == [cpu[c] EXCEPT !.intr = FALSE]
<1>2. R \in ProcRec /\ r \in CpuRec
  <2>1. ASSUME NEW x \in ThreadPC PROVE [proc[p] EXCEPT !.ret = x, !.pc = "yield1"] \in ProcRec
    <3>1. "yield1" \in ThreadPC
      BY Zenon DEF ThreadPC
    <3> QED
      BY <3>1, <1>1, Zenon DEF ProcRec
  <2>2. proc[p].pc \in ThreadPC
    BY <1>1, Zenon DEF ProcRec
  <2>3. r \in CpuRec
    BY <1>1, Zenon DEF CpuRec
  <2> QED
    BY <2>1, <2>2, <2>3, Zenon
<1>3. R.state = proc[p].state /\ R.pc = "yield1" /\ R.ret = proc[p].pc
  BY <1>1, Zenon DEF ProcRec
<1>4. Same(r, cpu[c]) /\ r.noff = 0 /\ ~r.intr
  BY <1>1, Zenon DEF CpuRec, Same
<1>5. /\ proc' = [proc EXCEPT ![p] = R] /\ cpu' = [cpu EXCEPT ![c] = r]
      /\ lock' = lock /\ cond' = cond /\ panicked' = panicked
  BY <1>0, Zenon DEF timer, TypeOK
<1> HIDE DEF R, r
<1>6. proc' \in [Proc -> ProcRec] /\ proc'[p] = R /\ \A q \in Proc \ {p} : proc'[q] = proc[q]
  BY <1>0, <1>2, <1>5, ProcUpdate, Zenon
<1>7. /\ cpu' \in [CPU -> CpuRec] /\ cpu'[c] = r /\ \A d \in CPU \ {c} : cpu'[d] = cpu[d]
  BY <1>0, <1>2, <1>5, CpuUpdate, Zenon
<1>8. TypeOK'
  BY <1>0, <1>5, <1>6, <1>7, Zenon DEF TypeOK
<1>9. ThreadInv(p)'
  <2>1. proc'[p].state = "RUNNING"
    BY <1>0, <1>1, <1>3, <1>6, Zenon DEF ThreadInv, Open
  <2> QED
    BY <2>1, <1>1, <1>3, <1>4, <1>6, <1>7, Zenon DEF ThreadInv, Same
<1>10. SameCpu(c)
  BY <1>4, <1>7, Zenon DEF SameCpu
<1>11. proc[p].pc # "wakeup"
  BY <1>1, Zenon DEF Open
<1> QED
  BY <1>0, <1>1, <1>3, <1>4, <1>5, <1>6, <1>7, <1>8, <1>9, <1>10, <1>11, QuietStep, SchedAssumption
     DEF WithLK, WithOwn, Parked, Open

\* The CPU leaves p's stack with p->lock held.
LEMMA LeaveStackInv ==
  ASSUME IInv, NEW c \in CPU, NEW p \in Proc, sleep_sched(c, p) \/ yield_sched(c, p)
  PROVE  IInv'
<1>0. PICK l \in {"sleep5", "yield3"} :
        /\ proc[p].pc = (IF l = "sleep5" THEN "sleep4" ELSE "yield2")
        /\ InThread(c, p) /\ sched(c, p, l)
  BY Zenon DEF sleep_sched, yield_sched
<1>1. /\ cpu[c].stack = p /\ cpu[c].irq = "none" /\ TypeOK /\ ThreadInv(p)
      /\ cpu[c].swtched /\ cpu[c].proc = p /\ cpu[c].scan = p
      /\ lock[LK] # c /\ lock[p] = c /\ cpu[c].noff = 1 /\ ~cpu[c].intr
      /\ cpu[c] \in CpuRec /\ proc[p] \in ProcRec /\ p # LK
      /\ \A d \in CPU \ {c} : cpu[d].proc # p /\ cpu[d].stack # p
      /\ \A q \in Proc : q # p => lock[q] # c
  BY <1>0, ThreadAt DEF WithLK, WithOwn, Parked, Open, InThread, IInv
<1>2. proc[p].state = (IF l = "sleep5" THEN "SLEEPING" ELSE "RUNNABLE")
  BY <1>0, <1>1, Zenon DEF ThreadInv
<1>3. panicked' = "no" /\ lock' = lock /\ cond' = cond
  BY <1>0, <1>1, <1>2, Zenon DEF sched, Check, Holding
<1> DEFINE R == [proc[p] EXCEPT !.pc = l, !.intena = cpu[c].intena]
           r == [cpu[c] EXCEPT !.stack = Idle]
<1>4. R \in ProcRec /\ r \in CpuRec
  BY <1>1, Zenon DEF ProcRec, CpuRec, ThreadPC
<1>5. R.state = proc[p].state /\ R.pc = l /\ R.ret = proc[p].ret /\ R.chan = proc[p].chan
  BY <1>1, Zenon DEF ProcRec
<1>6. /\ r.stack = Idle /\ r.proc = p /\ r.scan = p /\ r.swtched /\ r.irq = "none"
      /\ r.iscan = cpu[c].iscan /\ r.noff = 1 /\ ~r.intr
  BY <1>1, Zenon DEF CpuRec
<1>7. proc' = [proc EXCEPT ![p] = R] /\ cpu' = [cpu EXCEPT ![c] = r]
  BY <1>0, <1>1, Zenon DEF sched, TypeOK
<1> HIDE DEF R, r
<1>8. proc' \in [Proc -> ProcRec] /\ proc'[p] = R /\ \A q \in Proc \ {p} : proc'[q] = proc[q]
  BY <1>1, <1>4, <1>7, ProcUpdate, Zenon
<1>9. /\ cpu' \in [CPU -> CpuRec] /\ cpu'[c] = r /\ \A d \in CPU \ {c} : cpu'[d] = cpu[d]
  BY <1>1, <1>4, <1>7, CpuUpdate, Zenon
<1>10. TypeOK'
  BY <1>1, <1>3, <1>8, <1>9, Zenon DEF TypeOK
<1>11. ASSUME NEW q \in Proc, WakerAhead(q) PROVE WakerAhead(q)'
  <2>1. \A s \in Proc : proc[s].pc = "wakeup" => proc'[s].pc = "wakeup" /\ proc'[s].scan = proc[s].scan
    BY <1>0, <1>8, Zenon
  <2>2. \A d \in CPU : cpu'[d].irq = cpu[d].irq /\ cpu'[d].iscan = cpu[d].iscan
    BY <1>1, <1>6, <1>9
  <2> QED
    BY <1>11, <2>1, <2>2, WakersStay, Zenon
<1>12. ThreadInv(p)'
  <2>1. \A d \in CPU : cpu'[d].stack # p
    BY <1>1, <1>6, <1>9 DEF Idle, Proc
  <2>2. WakerAhead(p) => WakerAhead(p)'
    BY <1>11, Zenon
  <2> QED
    BY <2>1, <2>2, <1>0, <1>1, <1>2, <1>3, <1>5, <1>8, Zenon DEF ThreadInv, Parked
<1>13. CpuInv(c)'
  <2>1. ~OwnsLK(c)' /\ OwnsProc(c)'
    BY <1>6, <1>9 DEF OwnsLK, OwnsProc, Idle, Proc
  <2> QED
    BY <2>1, <1>1, <1>3, <1>6, <1>9 DEF CpuInv
<1>14. \A d \in CPU \ {c} : /\ cpu'[d] = cpu[d] /\ cpu[d].stack \notin {p}
                            /\ cpu'[c].proc = Idle \/ cpu[d].proc # cpu'[c].proc
  BY <1>1, <1>6, <1>9, SMTT(30)
<1>15. \A q \in Proc \ {p} : /\ proc'[q] = proc[q]
                             /\ cpu'[c].stack = q <=> cpu[c].stack = q
                             /\ cond' => cond \/ (WakerAhead(q)' /\ proc[q].pc \notin {"sleep1", "sleep2"})
                             /\ Waits(q) /\ WakerAhead(q) => WakerAhead(q)'
  BY <1>1, <1>3, <1>6, <1>8, <1>9, <1>11 DEF Idle, Proc
<1>16. {p} \in SUBSET Proc /\ \A q \in {p} : ThreadInv(q)'
  BY <1>12, Zenon
<1> QED
  BY <1>3, <1>10, <1>13, <1>14, <1>15, <1>16, Step, Zenon

-----------------------------------------------------------------------------
(* Wakers                                                                  *)

LEMMA LKHeld ==
  ASSUME IInv, NEW q \in Proc, proc[q].pc \in WithLK
  PROVE  lock[LK] # NoCPU
<1>1. PICK d \in CPU : cpu[d].stack = q
  BY Zenon DEF IInv, ThreadInv, WithLK, Parked
<1>2. OwnsLK(d)
  BY <1>1, Zenon DEF OwnsLK
<1> QED
  BY <1>2, SchedAssumption DEF IInv, CpuInv

\* Nobody waits whose lock is free, but for those who are asleep off their stacks.
LEMMA WaitsHeld ==
  ASSUME IInv, NEW q \in Proc, Waits(q), lock[q] = NoCPU
  PROVE  proc[q].state = "SLEEPING" /\ proc[q].chan /\ proc[q].pc = "sleep5"
         /\ \A d \in CPU : cpu[d].stack # q
<1>0. ThreadInv(q)
  BY Zenon DEF IInv
<1>1. ASSUME NEW d \in CPU, cpu[d].stack = q PROVE FALSE
  <2>1. proc[q].pc \in WithOwn
    BY <1>0, <1>1, Zenon DEF ThreadInv, Waits, WithOwn
  <2>2. CpuInv(d)
    BY Zenon DEF IInv
  <2>3. cpu[d].swtched /\ cpu[d].proc = q
    BY <1>1, <2>2 DEF CpuInv, Idle, Proc
  <2>4. OwnsProc(d)
    BY <1>1, <2>1, <2>3, Zenon DEF OwnsProc
  <2> QED
    BY <2>2, <2>3, <2>4, SchedAssumption, Zenon DEF CpuInv
<1> QED
  BY <1>0, <1>1, Zenon DEF ThreadInv, Waits, Parked

LEMMA SetCondInv == ASSUME IInv, NEW c \in CPU, NEW p \in Proc, set_cond(c, p) PROVE IInv'
<1>0. TypeOK /\ ThreadInv(p) /\ InThread(c, p) /\ proc[p].pc = "set" /\ ThreadAcquire(c, LK) /\ cond' = TRUE
  BY Zenon DEF IInv, set_cond
<1>1. cpu[c].stack = p /\ lock[LK] # c /\ lock[p] = NoCPU /\ cpu[c].noff = 0 /\ proc[p] \in ProcRec
  BY <1>0, ThreadAt DEF WithLK, WithOwn, Parked, InThread
<1>2. /\ panicked' = "no" /\ lock[LK] = NoCPU
      /\ cpu' \in [CPU -> CpuRec] /\ \A d \in CPU \ {c} : cpu'[d] = cpu[d]
      /\ SameCpu(c) /\ cpu'[c].noff = 1 /\ ~cpu'[c].intr
      /\ lock' \in [Lock -> CPU \cup {NoCPU}] /\ \A q \in Proc \ {p} : lock'[q] = lock[q]
      /\ lock'[LK] = c /\ lock'[p] = NoCPU
  <2>1. cpu[c].noff < 2 /\ LK \in {LK, p}
    BY <1>1
  <2> QED
    BY <1>0, <1>1, <2>1, Acquires, SMTT(30)
<1> DEFINE R == [proc[p] EXCEPT !.pc = "wakeup", !.scan = 1]
<1>3. R \in ProcRec
  <2>1. 1 \in 1 .. NPROC + 1
    BY SchedAssumption
  <2> QED
    BY <2>1, <1>1, Zenon DEF ProcRec, ThreadPC
<1>4. R.state = proc[p].state /\ R.pc = "wakeup" /\ R.scan = 1
  BY <1>1, Zenon DEF ProcRec
<1>5. proc' = [proc EXCEPT ![p] = R]
  BY <1>0, Zenon DEF set_cond, TypeOK
<1> HIDE DEF R
<1>6. proc' \in [Proc -> ProcRec] /\ proc'[p] = R /\ \A q \in Proc \ {p} : proc'[q] = proc[q]
  BY <1>0, <1>3, <1>5, ProcUpdate, Zenon
<1>7. TypeOK'
  BY <1>0, <1>2, <1>6, Zenon DEF TypeOK
<1>8. ThreadInv(p)'
  BY <1>0, <1>1, <1>2, <1>4, <1>6 DEF ThreadInv, SameCpu, Same
<1>9. \A q \in Proc : WakerAhead(q)'
  BY <1>4, <1>6 DEF WakerAhead, Proc
<1>10. \A q \in Proc : proc[q].pc \notin {"sleep1", "sleep2"}
  BY <1>2, LKHeld, Zenon DEF WithLK
<1> QED
  BY <1>0, <1>1, <1>2, <1>4, <1>6, <1>7, <1>8, <1>9, <1>10, ThreadStep, SchedAssumption, SMTT(30)
     DEF WithLK, WithOwn, Parked, Open

LEMMA SetReleaseInv == ASSUME IInv, NEW c \in CPU, NEW p \in Proc, set_release(c, p) PROVE IInv'
<1>0. /\ TypeOK /\ ThreadInv(p) /\ InThread(c, p) /\ proc[p].pc = "wakeup" /\ proc[p].scan = NPROC + 1
      /\ ThreadRelease(c, LK) /\ cond' = cond
  BY Zenon DEF IInv, set_release
<1>1. cpu[c].stack = p /\ lock[LK] = c /\ lock[p] = NoCPU /\ cpu[c].noff = 1 /\ ~cpu[c].intr
  BY <1>0, ThreadAt DEF WithLK, WithOwn, Parked, InThread, Open
<1>2. /\ panicked' = "no"
      /\ cpu' \in [CPU -> CpuRec] /\ \A d \in CPU \ {c} : cpu'[d] = cpu[d]
      /\ SameCpu(c) /\ cpu'[c].noff = 0
      /\ lock' \in [Lock -> CPU \cup {NoCPU}] /\ \A q \in Proc \ {p} : lock'[q] = lock[q]
      /\ lock'[p] = NoCPU /\ lock'[LK] = NoCPU
  BY <1>0, <1>1, Releases, SMTT(30)
<1>3. /\ proc' \in [Proc -> ProcRec] /\ \A q \in Proc \ {p} : proc'[q] = proc[q]
      /\ proc'[p].pc = "run" /\ proc'[p].state = proc[p].state
  BY <1>0, GotoType, Zenon DEF ThreadPC, set_release
<1>4. TypeOK'
  BY <1>0, <1>2, <1>3, Zenon DEF TypeOK
<1>5. ThreadInv(p)'
  BY <1>0, <1>1, <1>2, <1>3 DEF ThreadInv, SameCpu, Same
<1>6. ASSUME NEW q \in Proc, WakerAhead(q) PROVE WakerAhead(q)'
  <2>1. ~(NPROC + 1 <= q)
    BY SchedAssumption DEF Proc
  <2>2. CASE \E r \in Proc : proc[r].pc = "wakeup" /\ proc[r].scan <= q
    BY <2>1, <2>2, <1>0, <1>3, Zenon DEF WakerAhead
  <2>3. CASE \E d \in CPU : cpu[d].irq = "wakeup" /\ cpu[d].iscan <= q
    BY <2>3, <1>2 DEF WakerAhead, SameCpu, Same
  <2> QED
    BY <1>6, <2>2, <2>3, Zenon DEF WakerAhead
<1> QED
  BY <1>0, <1>1, <1>2, <1>3, <1>4, <1>5, <1>6, ThreadStep, SchedAssumption, SMTT(30) DEF WithLK, WithOwn, Parked, Open

LEMMA WakeupInv == ASSUME IInv, NEW c \in CPU, NEW p \in Proc, wakeup(c, p) PROVE IInv'
<1>q. PICK q \in Proc : q = proc[p].scan
  BY Zenon DEF wakeup
<1> DEFINE R == [proc[p] EXCEPT !.scan = q + 1]
           Wakes == q # p /\ proc[q].state = "SLEEPING" /\ proc[q].chan
           W == [proc[q] EXCEPT !.state = "RUNNABLE"]
<1>0. /\ TypeOK /\ ThreadInv(p) /\ InThread(c, p) /\ proc[p].pc = "wakeup" /\ proc[p].scan = q
      /\ cpu' = cpu /\ lock' = lock /\ cond' = cond /\ panicked = "no"
  BY <1>q, Zenon DEF IInv, wakeup
<1>1. /\ cpu[c].stack = p /\ lock[LK] = c /\ lock[p] = NoCPU /\ cpu[c].noff = 1 /\ ~cpu[c].intr
      /\ proc[p] \in ProcRec /\ \A s \in Proc : s # p => lock[s] # c
      /\ \A d \in CPU \ {c} : cpu[d].proc # p /\ cpu[d].stack # p
  BY <1>0, ThreadAt DEF WithLK, WithOwn, Parked, InThread, Open
<1>2. q # p => lock[q] = NoCPU
  BY <1>0, <1>1, Zenon DEF wakeup, Acquirable
<1>3. panicked' = "no"
  BY <1>0, <1>1, Zenon DEF wakeup, Check, Holding
<1>4. R \in ProcRec /\ R.state = proc[p].state /\ R.pc = "wakeup" /\ R.scan = q + 1
  <2>1. ASSUME NEW n \in 1 .. NPROC + 1 PROVE [proc[p] EXCEPT !.scan = n] \in ProcRec
    BY <1>1, Zenon DEF ProcRec
  <2>2. q + 1 \in 1 .. NPROC + 1
    BY <1>0, SchedAssumption DEF Proc
  <2>3. R.state = proc[p].state /\ R.pc = proc[p].pc /\ R.scan = q + 1
    BY <1>1, Zenon DEF ProcRec
  <2> QED
    BY <2>1, <2>2, <2>3, <1>0, Zenon
<1>5. proc[q] \in ProcRec
  BY <1>0, Zenon DEF TypeOK
<1>6. W \in ProcRec
  BY <1>5, Zenon DEF ProcRec
<1>7. W.state = "RUNNABLE" /\ W.pc = proc[q].pc /\ W.scan = proc[q].scan /\ W.ret = proc[q].ret
  BY <1>5, Zenon DEF ProcRec
<1>8. /\ Wakes => proc' = [[proc EXCEPT ![q] = W] EXCEPT ![p] = R]
      /\ ~Wakes => proc' = [proc EXCEPT ![p] = R]
  BY <1>0, <1>5, Zenon DEF wakeup, Woken, TypeOK
<1> HIDE DEF R, W
<1>9. /\ proc' \in [Proc -> ProcRec] /\ proc'[p] = R /\ \A s \in Proc \ {p, q} : proc'[s] = proc[s]
      /\ Wakes => proc'[q] = W
      /\ ~Wakes => \A s \in Proc \ {p} : proc'[s] = proc[s]
  BY <1>0, <1>4, <1>6, <1>8 DEF TypeOK
<1>10. TypeOK'
  BY <1>0, <1>3, <1>9, Zenon DEF TypeOK
<1>11. ThreadInv(p)'
  BY <1>0, <1>1, <1>4, <1>9, Zenon DEF ThreadInv
<1>12. ASSUME NEW s \in Proc, s # q, WakerAhead(s) PROVE WakerAhead(s)'
  <2>1. CASE \E t \in Proc : proc[t].pc = "wakeup" /\ proc[t].scan <= s
    <3>1. PICK t \in Proc : proc[t].pc = "wakeup" /\ proc[t].scan <= s
      BY <2>1, Zenon
    <3>2. CASE t = p
      <4>1. q + 1 <= s
        BY <1>0, <1>12, <3>1, <3>2 DEF Proc
      <4> QED
        BY <4>1, <1>4, <1>9, Zenon DEF WakerAhead
    <3>3. CASE t # p
      <4>1. proc'[t].pc = "wakeup" /\ proc'[t].scan = proc[t].scan
        BY <3>1, <3>3, <1>7, <1>9, Zenon
      <4> QED
        BY <4>1, <3>1, Zenon DEF WakerAhead
    <3> QED
      BY <3>2, <3>3, Zenon
  <2>2. CASE \E d \in CPU : cpu[d].irq = "wakeup" /\ cpu[d].iscan <= s
    BY <2>2, <1>0, Zenon DEF WakerAhead
  <2> QED
    BY <1>12, <2>1, <2>2, Zenon DEF WakerAhead
<1>13. CASE ~Wakes
  <2>1. ASSUME NEW s \in Proc \ {p}, Waits(s), WakerAhead(s) PROVE WakerAhead(s)'
    <3>1. CASE s = q
      BY <3>1, <2>1, <1>2, <1>13, WaitsHeld, Zenon
    <3>2. CASE s # q
      BY <3>2, <2>1, <1>12, Zenon
    <3> QED
      BY <3>1, <3>2, Zenon
  <2>2. \A s \in Proc \ {p} : proc'[s] = proc[s] /\ lock'[s] = lock[s]
    BY <1>0, <1>9, <1>13, Zenon
  <2>3. SameCpu(c)
    BY <1>0, Zenon DEF SameCpu, Same
  <2> QED
    BY <2>1, <2>2, <2>3, <1>0, <1>1, <1>3, <1>4, <1>9, <1>10, <1>11, ThreadStep, SchedAssumption, SMTT(30)
       DEF WithLK, WithOwn, Parked, Open
<1>14. CASE Wakes
  <2>1. Waits(q) /\ ThreadInv(q)
    BY <1>0, <1>14, Zenon DEF Waits, IInv
  <2>2. proc[q].pc = "sleep5" /\ \A d \in CPU : cpu[d].stack # q
    BY <2>1, <1>0, <1>2, <1>14, WaitsHeld, Zenon
  <2>3. ThreadInv(q)'
    BY <2>2, <1>0, <1>7, <1>9, <1>14, Zenon DEF ThreadInv, Parked
  <2>4. CpuInv(c)'
    <3>1. CpuInv(c) /\ cpu[c].stack \in Proc \cup {Idle} /\ cpu'[c] = cpu[c]
      BY <1>0, <1>1, Zenon DEF IInv
    <3>2. \A l \in Lock : lock'[l] = c <=> lock[l] = c
      BY <1>0, Zenon
    <3>3. proc'[cpu[c].stack].pc = proc[cpu[c].stack].pc
      BY <1>0, <1>1, <1>4, <1>9, Zenon
    <3> QED
      BY <3>1, <3>2, <3>3, CpuFrame, Zenon
  <2>5. \A d \in CPU \ {c} : /\ cpu'[d] = cpu[d] /\ cpu[d].stack \notin {p, q}
                             /\ cpu'[c].proc = Idle \/ cpu[d].proc # cpu'[c].proc
    BY <2>2, <1>0, <1>1, Zenon DEF IInv, OneProc
  <2>6. \A l \in Lock : lock'[l] # lock[l] => lock[l] \in {c, NoCPU} /\ lock'[l] \in {c, NoCPU}
    BY <1>0, Zenon
  <2>7. \A s \in Proc \ {p, q} : /\ proc'[s] = proc[s]
                                 /\ cpu'[c].stack = s <=> cpu[c].stack = s
                                 /\ cond' => cond \/ (WakerAhead(s)' /\ proc[s].pc \notin {"sleep1", "sleep2"})
                                 /\ Waits(s) /\ WakerAhead(s) => WakerAhead(s)'
    BY <1>0, <1>9, <1>12, Zenon
  <2>8. {p, q} \in SUBSET Proc /\ \A s \in {p, q} : ThreadInv(s)'
    BY <2>3, <1>0, <1>11, Zenon
  <2> QED
    BY <2>4, <2>5, <2>6, <2>7, <2>8, <1>3, <1>10, Step, Zenon
<1> QED
  BY <1>13, <1>14, Zenon

----

-----------------------------------------------------------------------------
(* The scheduler                                                           *)

\* A step of CPU c that is none of a thread.
LEMMA CpuStep ==
  ASSUME IInv, NEW c \in CPU, TypeOK', panicked' = "no", proc' = proc,
         cpu'[c].stack = cpu[c].stack, cpu'[c].proc \in {Idle, cpu[c].proc},
         \A d \in CPU \ {c} : cpu'[d] = cpu[d],
         \A l \in Lock : lock'[l] # lock[l] => lock[l] \in {c, NoCPU} /\ lock'[l] \in {c, NoCPU},
         \A q \in Proc : cond' => cond \/ (WakerAhead(q)' /\ proc[q].pc \notin {"sleep1", "sleep2"}),
         \A q \in Proc : Waits(q) /\ WakerAhead(q) => WakerAhead(q)',
         CpuInv(c)'
  PROVE  IInv'
<1>1. \A d \in CPU \ {c} : /\ cpu'[d] = cpu[d] /\ cpu[d].stack \notin {}
                           /\ cpu'[c].proc = Idle \/ cpu[d].proc # cpu'[c].proc
  BY Zenon DEF IInv, OneProc
<1>2. \A q \in Proc \ {} : /\ proc'[q] = proc[q]
                           /\ cpu'[c].stack = q <=> cpu[c].stack = q
                           /\ cond' => cond \/ (WakerAhead(q)' /\ proc[q].pc \notin {"sleep1", "sleep2"})
                           /\ Waits(q) /\ WakerAhead(q) => WakerAhead(q)'
  BY SMTT(30)
<1>3. {} \in SUBSET Proc /\ \A q \in {} : ThreadInv(q)'
  BY SMTT(30)
<1> QED
  BY <1>1, <1>2, <1>3, Step, Zenon

\* What is known of a CPU in scheduler()
LEMMA SchedulerAt ==
  ASSUME IInv, NEW c \in CPU, InScheduler(c)
  PROVE  /\ TypeOK /\ panicked = "no" /\ cpu[c] \in CpuRec /\ cpu[c].stack = Idle /\ cpu[c].irq = "none"
         /\ lock[LK] # c /\ Idle \notin Proc
         /\ cpu[c].swtched => /\ cpu[c].scan \in Proc /\ cpu[c].proc = cpu[c].scan
                              /\ cpu[c].noff = 1 /\ ~cpu[c].intr
                              /\ \A q \in Proc : lock[q] = c <=> q = cpu[c].scan
         /\ ~cpu[c].swtched => cpu[c].proc = Idle /\ cpu[c].noff = 0 /\ \A q \in Proc : lock[q] # c
<1>1. /\ TypeOK /\ panicked = "no" /\ cpu[c] \in CpuRec /\ cpu[c].stack = Idle /\ cpu[c].irq = "none"
      /\ Idle \notin Proc /\ CpuInv(c)
  BY DEF IInv, InScheduler, TypeOK, Idle, Proc
<1>2. ~OwnsLK(c) /\ (OwnsProc(c) <=> cpu[c].swtched)
  BY <1>1, Zenon DEF OwnsLK, OwnsProc
<1> QED
  BY <1>1, <1>2 DEF CpuInv

\* scheduler() between two processes: r is the new record of its CPU.
LEMMA LoopStep ==
  ASSUME IInv, NEW c \in CPU, InScheduler(c), ~cpu[c].swtched, panicked' = "no",
         NEW r \in CpuRec, cpu' = [cpu EXCEPT ![c] = r], proc' = proc, lock' = lock, cond' = cond,
         r.stack = Idle, r.proc = Idle, ~r.swtched, r.irq = "none", r.iscan = cpu[c].iscan, r.noff = 0
  PROVE  IInv'
<1>1. /\ TypeOK /\ cpu[c].stack = Idle /\ cpu[c].irq = "none"
      /\ lock[LK] # c /\ Idle \notin Proc /\ cpu[c].proc = Idle /\ \A q \in Proc : lock[q] # c
  BY SchedulerAt, Zenon
<1>2. cpu' \in [CPU -> CpuRec] /\ cpu'[c] = r /\ \A d \in CPU \ {c} : cpu'[d] = cpu[d]
  BY <1>1, CpuUpdate, Zenon
<1>3. TypeOK'
  BY <1>1, <1>2, Zenon DEF TypeOK
<1>4. ~OwnsLK(c)' /\ ~OwnsProc(c)'
  BY <1>1, <1>2, Zenon DEF OwnsLK, OwnsProc
<1>5. CpuInv(c)'
  BY <1>1, <1>2, <1>4 DEF CpuInv
<1>6. ASSUME NEW q \in Proc, WakerAhead(q) PROVE WakerAhead(q)'
  <2>1. \A d \in CPU : cpu'[d].irq = cpu[d].irq /\ cpu'[d].iscan = cpu[d].iscan
    BY <1>1, <1>2, Zenon
  <2> QED
    BY <1>6, <2>1, WakersStay, Zenon
<1> QED
  BY <1>1, <1>2, <1>3, <1>5, <1>6, CpuStep, Zenon

LEMMA LoopInv == ASSUME IInv, NEW c \in CPU, sched_loop(c) \/ sched_skip(c) PROVE IInv'
<1>0. InScheduler(c) /\ ~cpu[c].swtched
  BY Zenon DEF sched_loop, sched_skip
<1>1. /\ panicked = "no" /\ cpu[c] \in CpuRec /\ cpu[c].stack = Idle /\ cpu[c].irq = "none"
      /\ cpu[c].proc = Idle /\ cpu[c].noff = 0 /\ \A q \in Proc : lock[q] # c
  BY <1>0, SchedulerAt, Zenon
<1>2. CASE sched_loop(c)
  <2> DEFINE r == [cpu[c] EXCEPT !.intr = TRUE, !.scan = 1]
  <2>1. r \in CpuRec
    <3>1. 1 \in 1 .. NPROC + 1
      BY SchedAssumption
    <3> QED
      BY <3>1, <1>1, Zenon DEF CpuRec
  <2>2. r.stack = Idle /\ r.proc = Idle /\ ~r.swtched /\ r.irq = "none" /\ r.iscan = cpu[c].iscan /\ r.noff = 0
    <3>1. /\ r.stack = cpu[c].stack /\ r.proc = cpu[c].proc /\ r.swtched = cpu[c].swtched
          /\ r.irq = cpu[c].irq /\ r.iscan = cpu[c].iscan /\ r.noff = cpu[c].noff
      BY <1>1, Zenon DEF CpuRec
    <3> QED
      BY <3>1, <1>0, <1>1, Zenon
  <2>3. cpu' = [cpu EXCEPT ![c] = r] /\ proc' = proc /\ lock' = lock /\ cond' = cond /\ panicked' = "no"
    BY <1>1, <1>2, Zenon DEF sched_loop, IInv, TypeOK
  <2> HIDE DEF r
  <2> QED
    BY <1>0, <2>1, <2>2, <2>3, LoopStep, Zenon
<1>3. CASE sched_skip(c)
  <2> DEFINE u == push_off(cpu[c])
             o == pop_off(u)
             r == [o EXCEPT !.scan = cpu[c].scan + 1]
  <2>1. u \in CpuRec /\ Same(u, cpu[c]) /\ u.noff = 1
    BY <1>1, PushOff
  <2>2. cpu' = [cpu EXCEPT ![c] = r] /\ proc' = proc /\ lock' = lock /\ cond' = cond /\ cpu[c].scan \in Proc
    BY <1>3, Zenon DEF sched_skip
  <2> HIDE DEF u
  <2>3. o \in CpuRec /\ Same(o, u) /\ o.noff = 0
    BY <2>1, PopOff
  <2> HIDE DEF o
  <2>4. cpu[c].scan + 1 \in 1 .. NPROC + 1
    BY <2>2, SchedAssumption DEF Proc
  <2>5. r \in CpuRec
    <3>1. ASSUME NEW n \in 1 .. NPROC + 1 PROVE [o EXCEPT !.scan = n] \in CpuRec
      BY <2>3, Zenon DEF CpuRec
    <3> QED
      BY <3>1, <2>4, Zenon
  <2>6. r.stack = o.stack /\ r.proc = o.proc /\ r.swtched = o.swtched /\ r.irq = o.irq /\ r.iscan = o.iscan /\ r.noff = 0
    BY <2>3, Zenon DEF CpuRec
  <2> HIDE DEF r
  <2>7. r.stack = Idle /\ r.proc = Idle /\ ~r.swtched /\ r.irq = "none" /\ r.iscan = cpu[c].iscan /\ r.noff = 0
    BY <1>0, <1>1, <2>1, <2>3, <2>6, Zenon DEF Same
  <2>8. panicked' = "no"
    BY <1>1, <1>3, Zenon DEF sched_skip, Check, Holding
  <2> QED
    BY <1>0, <2>2, <2>5, <2>7, <2>8, LoopStep, Zenon
<1> QED
  BY <1>2, <1>3, Zenon

\* Whoever is RUNNABLE with its lock free is on no CPU.
LEMMA RunInv == ASSUME IInv, NEW c \in CPU, sched_run(c) PROVE IInv'
<1>0. InScheduler(c) /\ ~cpu[c].swtched /\ cond' = cond
  BY Zenon DEF sched_run
<1>1. /\ TypeOK /\ cpu[c] \in CpuRec /\ cpu[c].stack = Idle /\ cpu[c].irq = "none" /\ Idle \notin Proc
      /\ cpu[c].proc = Idle /\ cpu[c].noff = 0 /\ lock[LK] # c /\ \A q \in Proc : lock[q] # c
  BY <1>0, SchedulerAt, Zenon
<1>2. PICK p \in Proc : p = cpu[c].scan
  BY Zenon DEF sched_run
<1>3. /\ proc[p].state = "RUNNABLE" /\ lock[p] = NoCPU /\ panicked' = "no" /\ ThreadInv(p) /\ proc[p] \in ProcRec
      /\ lock' = [lock EXCEPT ![p] = c]
  BY <1>1, <1>2, Zenon DEF sched_run, Acquirable, Check, Holding, IInv, TypeOK
<1>4. ASSUME NEW d \in CPU PROVE cpu[d].stack # p /\ cpu[d].proc # p
  <2>1. CpuInv(d) /\ ~(cpu[d].proc = p /\ OwnsProc(d))
    BY <1>3, SchedAssumption, SMTT(30) DEF IInv, CpuInv
  <2>2. cpu[d].stack # p
    <3> SUFFICES ASSUME cpu[d].stack = p PROVE FALSE
      BY Zenon
    <3>1. proc[p].pc = "yield2"
      BY <1>3, Zenon DEF ThreadInv
    <3>2. cpu[d].swtched /\ cpu[d].proc = p
      BY <2>1, <1>1, Zenon DEF CpuInv
    <3> QED
      BY <3>1, <3>2, <2>1, Zenon DEF OwnsProc, WithOwn
  <2> QED
    BY <2>1, <2>2, <1>1, Zenon DEF CpuInv, OwnsProc
<1>5. proc[p].pc \in Parked
  BY <1>3, <1>4, Zenon DEF ThreadInv
<1> DEFINE u == push_off(cpu[c])
           r == [u EXCEPT !.proc = p, !.stack = p, !.swtched = TRUE]
           R == [proc[p] EXCEPT !.state = "RUNNING"]
<1>6. u \in CpuRec /\ Same(u, cpu[c]) /\ u.noff = 1 /\ ~u.intr
  BY <1>1, PushOff
<1>7. cpu' = [cpu EXCEPT ![c] = r] /\ proc' = [proc EXCEPT ![p] = R]
  BY <1>1, <1>2, Zenon DEF sched_run, TypeOK
<1>8. R \in ProcRec
  BY <1>3, Zenon DEF ProcRec
<1>9. R.state = "RUNNING" /\ R.pc = proc[p].pc /\ R.ret = proc[p].ret /\ R.scan = proc[p].scan
  BY <1>3, Zenon DEF ProcRec
<1> HIDE DEF u, R
<1>10. r \in CpuRec
  BY <1>6, Zenon DEF CpuRec
<1>11. /\ r.stack = p /\ r.proc = p /\ r.swtched /\ r.scan = u.scan /\ r.irq = u.irq /\ r.iscan = u.iscan
       /\ r.noff = u.noff /\ r.intr = u.intr
  BY <1>6, Zenon DEF CpuRec
<1> HIDE DEF r
<1>12. r.scan = p /\ r.irq = "none" /\ r.iscan = cpu[c].iscan /\ r.noff = 1 /\ ~r.intr
  BY <1>1, <1>2, <1>6, <1>11, Zenon DEF Same
<1>13. cpu' \in [CPU -> CpuRec] /\ cpu'[c] = r /\ \A d \in CPU \ {c} : cpu'[d] = cpu[d]
  BY <1>1, <1>7, <1>10, CpuUpdate, Zenon
<1>14. proc' \in [Proc -> ProcRec] /\ proc'[p] = R /\ \A q \in Proc \ {p} : proc'[q] = proc[q]
  BY <1>1, <1>7, <1>8, ProcUpdate, Zenon
<1>15. /\ lock' \in [Lock -> CPU \cup {NoCPU}] /\ \A q \in Proc \ {p} : lock'[q] = lock[q]
       /\ lock'[p] = c /\ lock'[LK] = lock[LK]
  BY <1>1, <1>3, LockUpdate, Zenon
<1>16. TypeOK'
  BY <1>0, <1>1, <1>3, <1>13, <1>14, <1>15, Zenon DEF TypeOK
<1>17. ThreadInv(p)'
  BY <1>0, <1>3, <1>5, <1>9, <1>11, <1>13, <1>14, Zenon DEF ThreadInv, Parked
<1>18. CpuInv(c)'
  <2>1. ~OwnsLK(c)' /\ OwnsProc(c)'
    BY <1>5, <1>9, <1>11, <1>12, <1>13, <1>14 DEF OwnsLK, OwnsProc, WithOwn, WithLK, Parked
  <2> QED
    BY <2>1, <1>1, <1>11, <1>12, <1>13, <1>15 DEF CpuInv
<1>19. ASSUME NEW q \in Proc, WakerAhead(q) PROVE WakerAhead(q)'
  <2>1. \A d \in CPU : cpu'[d].irq = cpu[d].irq /\ cpu'[d].iscan = cpu[d].iscan
    BY <1>1, <1>12, <1>13, Zenon
  <2>2. \A s \in Proc : proc[s].pc = "wakeup" => proc'[s].pc = "wakeup" /\ proc'[s].scan = proc[s].scan
    BY <1>9, <1>14, Zenon
  <2> QED
    BY <1>19, <2>1, <2>2, WakersStay, Zenon
<1>20. \A d \in CPU \ {c} : /\ cpu'[d] = cpu[d] /\ cpu[d].stack \notin {p}
                            /\ cpu'[c].proc = Idle \/ cpu[d].proc # cpu'[c].proc
  BY <1>4, <1>11, <1>13
<1>21. \A l \in Lock : lock'[l] # lock[l] => lock[l] \in {c, NoCPU} /\ lock'[l] \in {c, NoCPU}
  BY <1>3, <1>15, Zenon DEF Lock, LK
<1>22. \A q \in Proc \ {p} : /\ proc'[q] = proc[q]
                             /\ cpu'[c].stack = q <=> cpu[c].stack = q
                             /\ cond' => cond \/ (WakerAhead(q)' /\ proc[q].pc \notin {"sleep1", "sleep2"})
                             /\ Waits(q) /\ WakerAhead(q) => WakerAhead(q)'
  BY <1>0, <1>1, <1>11, <1>13, <1>14, <1>19
<1>23. {p} \in SUBSET Proc /\ \A q \in {p} : ThreadInv(q)'
  BY <1>17, Zenon
<1> QED
  BY <1>3, <1>16, <1>18, <1>20, <1>21, <1>22, <1>23, Step, Zenon

LEMMA BackInv == ASSUME IInv, NEW c \in CPU, sched_back(c) PROVE IInv'
<1>0. InScheduler(c) /\ cpu[c].swtched /\ proc' = proc /\ cond' = cond
  BY Zenon DEF sched_back
<1>1. /\ TypeOK /\ cpu[c] \in CpuRec /\ cpu[c].stack = Idle /\ cpu[c].irq = "none" /\ Idle \notin Proc
      /\ cpu[c].scan \in Proc /\ cpu[c].noff = 1 /\ ~cpu[c].intr /\ lock[LK] # c
      /\ \A q \in Proc : lock[q] = c <=> q = cpu[c].scan
  BY <1>0, SchedulerAt, Zenon
<1>2. PICK p \in Proc : p = cpu[c].scan
  BY <1>1, Zenon
<1>3. panicked' = "no" /\ lock' = [lock EXCEPT ![p] = NoCPU]
  BY <1>1, <1>2 DEF sched_back, Check, Holding, CanPop
<1> DEFINE o == pop_off(cpu[c])
           r == [o EXCEPT !.proc = Idle, !.swtched = FALSE, !.scan = p + 1]
<1>4. o \in CpuRec /\ Same(o, cpu[c]) /\ o.noff = 0
  BY <1>1, PopOff
<1>5. cpu' = [cpu EXCEPT ![c] = r]
  BY <1>2, Zenon DEF sched_back
<1> HIDE DEF o
<1>6. r \in CpuRec
  <2>1. ASSUME NEW n \in 1 .. NPROC + 1 PROVE [o EXCEPT !.proc = Idle, !.swtched = FALSE, !.scan = n] \in CpuRec
    BY <1>4, Zenon DEF CpuRec
  <2>2. p + 1 \in 1 .. NPROC + 1
    BY SchedAssumption DEF Proc
  <2> QED
    BY <2>1, <2>2, Zenon
<1>7. r.proc = Idle /\ ~r.swtched /\ r.stack = o.stack /\ r.irq = o.irq /\ r.iscan = o.iscan /\ r.noff = 0
  BY <1>4, Zenon DEF CpuRec
<1> HIDE DEF r
<1>8. r.stack = Idle /\ r.irq = "none" /\ r.iscan = cpu[c].iscan
  BY <1>1, <1>4, <1>7, Zenon DEF Same
<1>9. cpu' \in [CPU -> CpuRec] /\ cpu'[c] = r /\ \A d \in CPU \ {c} : cpu'[d] = cpu[d]
  BY <1>1, <1>5, <1>6, CpuUpdate, Zenon
<1>10. /\ lock' \in [Lock -> CPU \cup {NoCPU}] /\ \A q \in Proc \ {p} : lock'[q] = lock[q]
       /\ lock'[p] = NoCPU /\ lock'[LK] = lock[LK]
  BY <1>1, <1>3, LockUpdate, Zenon
<1>11. TypeOK'
  BY <1>0, <1>1, <1>3, <1>9, <1>10, Zenon DEF TypeOK
<1>12. CpuInv(c)'
  <2>1. ~OwnsLK(c)' /\ ~OwnsProc(c)'
    BY <1>1, <1>7, <1>8, <1>9, Zenon DEF OwnsLK, OwnsProc
  <2> QED
    BY <2>1, <1>1, <1>2, <1>7, <1>8, <1>9, <1>10, SchedAssumption DEF CpuInv
<1>13. ASSUME NEW q \in Proc, WakerAhead(q) PROVE WakerAhead(q)'
  <2>1. \A d \in CPU : cpu'[d].irq = cpu[d].irq /\ cpu'[d].iscan = cpu[d].iscan
    BY <1>1, <1>8, <1>9, Zenon
  <2> QED
    BY <1>0, <1>13, <2>1, WakersStay, Zenon
<1>14. \A l \in Lock : lock'[l] # lock[l] => lock[l] \in {c, NoCPU} /\ lock'[l] \in {c, NoCPU}
  BY <1>1, <1>2, <1>10, Zenon DEF Lock, LK
<1> QED
  BY <1>0, <1>1, <1>3, <1>7, <1>8, <1>9, <1>11, <1>12, <1>13, <1>14, CpuStep, Zenon

-----------------------------------------------------------------------------
(* Device interrupts                                                       *)

\* What is known of a CPU that may be interrupted, or is
LEMMA IrqAt ==
  ASSUME IInv, NEW c \in CPU, cpu[c].intr \/ cpu[c].irq # "none"
  PROVE  /\ TypeOK /\ panicked = "no" /\ cpu[c] \in CpuRec /\ Idle \notin Proc /\ ~OwnsProc(c)
         /\ cpu[c].stack = Idle \/ proc[cpu[c].stack].pc \in Open
         /\ lock[LK] = c <=> cpu[c].irq = "wakeup"
         /\ \A q \in Proc : lock[q] # c
         /\ cpu[c].noff = IF cpu[c].irq = "wakeup" THEN 1 ELSE 0
         /\ cpu[c].irq # "none" => ~cpu[c].intr
         /\ \A q \in Proc : cpu[c].proc = q => ~Waits(q)
<1>1. /\ TypeOK /\ panicked = "no" /\ cpu[c] \in CpuRec /\ Idle \notin Proc /\ CpuInv(c)
  BY DEF IInv, TypeOK, Idle, Proc
<1>2. ~OwnsProc(c) /\ (cpu[c].stack = Idle \/ proc[cpu[c].stack].pc \in Open)
  BY <1>1, Zenon DEF CpuInv
<1>3. OwnsLK(c) <=> cpu[c].irq = "wakeup"
  BY <1>1, <1>2, Zenon DEF OwnsLK, Open, WithLK
<1>4. ASSUME NEW q \in Proc, cpu[c].proc = q PROVE ~Waits(q)
  <2>1. cpu[c].stack = q
    BY <1>1, <1>2, <1>4, Zenon DEF CpuInv, OwnsProc
  <2>2. proc[q].pc \in Open /\ ThreadInv(q)
    BY <1>1, <1>2, <2>1, Zenon DEF IInv
  <2> QED
    BY <2>1, <2>2, Zenon DEF ThreadInv, Waits, Open
<1> QED
  BY <1>1, <1>2, <1>3, <1>4 DEF CpuInv

LEMMA IrqCpu ==
  ASSUME IInv, NEW c \in CPU, cpu[c].intr \/ cpu[c].irq # "none",
         cpu[c].stack \in Proc => proc'[cpu[c].stack].pc = proc[cpu[c].stack].pc,
         cpu'[c].stack = cpu[c].stack, cpu'[c].proc = cpu[c].proc, cpu'[c].scan = cpu[c].scan,
         cpu'[c].swtched <=> cpu[c].swtched,
         lock'[LK] = c <=> cpu'[c].irq = "wakeup", \A q \in Proc : lock'[q] = lock[q],
         cpu'[c].noff = IF cpu'[c].irq = "wakeup" THEN 1 ELSE 0,
         ~(cpu'[c].intr /\ cpu'[c].irq # "none")
  PROVE  CpuInv(c)'
<1>1. /\ cpu[c] \in CpuRec /\ ~OwnsProc(c) /\ (cpu[c].stack = Idle \/ proc[cpu[c].stack].pc \in Open)
      /\ \A q \in Proc : lock[q] # c
  BY IrqAt, Zenon
<1>2. CpuInv(c) /\ cpu[c].stack \in Proc \cup {Idle}
  BY <1>1, Zenon DEF IInv, CpuRec
<1>3. cpu'[c].stack = Idle \/ proc'[cpu'[c].stack].pc \in Open
  BY <1>1, <1>2, Zenon
<1>4. ~OwnsProc(c)'
  BY <1>1, <1>2, Zenon DEF OwnsProc
<1>5. OwnsLK(c)' <=> cpu'[c].irq = "wakeup"
  BY <1>2, <1>3, SMTT(30) DEF OwnsLK, Open, WithLK, Idle, Proc
<1> QED
  BY <1>1, <1>2, <1>3, <1>4, <1>5, SMTT(30) DEF CpuInv

LEMMA IrqEnterInv == ASSUME IInv, NEW c \in CPU, irq_enter(c) PROVE IInv'
<1> DEFINE r == [cpu[c] EXCEPT !.irq = "acquire", !.intr = FALSE]
<1>0. /\ cpu[c].irq = "none" /\ cpu[c].intr /\ proc' = proc /\ lock' = lock /\ cond' = cond
      /\ panicked' = panicked
  BY Zenon DEF irq_enter
<1>1. /\ TypeOK /\ panicked = "no" /\ cpu[c] \in CpuRec /\ lock[LK] # c /\ cpu[c].noff = 0
  BY <1>0, IrqAt, Zenon
<1>2. cpu' = [cpu EXCEPT ![c] = r]
  BY <1>1, Zenon DEF irq_enter, TypeOK
<1>3. r \in CpuRec
  BY <1>1, Zenon DEF CpuRec
<1>4. /\ r.stack = cpu[c].stack /\ r.proc = cpu[c].proc /\ r.scan = cpu[c].scan
      /\ r.swtched = cpu[c].swtched /\ r.irq = "acquire" /\ ~r.intr /\ r.noff = 0
  BY <1>1, Zenon DEF CpuRec
<1> HIDE DEF r
<1>5. cpu' \in [CPU -> CpuRec] /\ cpu'[c] = r /\ \A d \in CPU \ {c} : cpu'[d] = cpu[d]
  BY <1>1, <1>2, <1>3, CpuUpdate, Zenon
<1>6. TypeOK'
  BY <1>0, <1>1, <1>5, Zenon DEF TypeOK
<1>7. CpuInv(c)'
  BY <1>0, <1>1, <1>4, <1>5, IrqCpu, Zenon
<1>8. ASSUME NEW q \in Proc, WakerAhead(q) PROVE WakerAhead(q)'
  BY <1>0, <1>5, <1>8, Zenon DEF WakerAhead
<1> QED
  BY <1>0, <1>1, <1>4, <1>5, <1>6, <1>7, <1>8, CpuStep, Zenon

LEMMA IrqSetInv == ASSUME IInv, NEW c \in CPU, irq_set(c) PROVE IInv'
<1> DEFINE u == push_off(cpu[c])
           r == [u EXCEPT !.irq = "wakeup", !.iscan = 1]
<1>0. /\ cpu[c].irq = "acquire" /\ proc' = proc /\ lock' = [lock EXCEPT ![LK] = c] /\ cond' = TRUE
  BY Zenon DEF irq_set
<1>1. /\ TypeOK /\ panicked = "no" /\ cpu[c] \in CpuRec /\ lock[LK] # c /\ cpu[c].noff = 0
  BY <1>0, IrqAt, Zenon
<1>2. lock[LK] = NoCPU /\ panicked' = "no"
  BY <1>1, Zenon DEF irq_set, Acquirable, Check, Holding
<1>3. u \in CpuRec /\ Same(u, cpu[c]) /\ u.noff = 1 /\ ~u.intr
  BY <1>1, PushOff
<1>4. cpu' = [cpu EXCEPT ![c] = r]
  BY Zenon DEF irq_set
<1> HIDE DEF u
<1>5. r \in CpuRec
  <2>1. 1 \in 1 .. NPROC + 1
    BY SchedAssumption
  <2> QED
    BY <2>1, <1>3, Zenon DEF CpuRec
<1>6. /\ r.stack = u.stack /\ r.proc = u.proc /\ r.scan = u.scan /\ r.swtched = u.swtched
      /\ r.irq = "wakeup" /\ r.iscan = 1 /\ ~r.intr /\ r.noff = 1
  BY <1>3, Zenon DEF CpuRec
<1> HIDE DEF r
<1>7. r.stack = cpu[c].stack /\ r.proc = cpu[c].proc /\ r.scan = cpu[c].scan /\ r.swtched = cpu[c].swtched
  BY <1>3, <1>6, Zenon DEF Same
<1>8. cpu' \in [CPU -> CpuRec] /\ cpu'[c] = r /\ \A d \in CPU \ {c} : cpu'[d] = cpu[d]
  BY <1>1, <1>4, <1>5, CpuUpdate, ZenonT(40)
<1>9. lock' \in [Lock -> CPU \cup {NoCPU}] /\ lock'[LK] = c /\ \A q \in Proc : lock'[q] = lock[q]
  BY <1>0, <1>1 DEF TypeOK, Lock, LK, Proc
<1>10. TypeOK'
  BY <1>0, <1>1, <1>2, <1>8, <1>9, Zenon DEF TypeOK
<1>11. CpuInv(c)'
  BY <1>0, <1>6, <1>7, <1>8, <1>9, IrqCpu
<1>12. \A q \in Proc : WakerAhead(q)' /\ proc[q].pc \notin {"sleep1", "sleep2"}
  <2>1. \A q \in Proc : 1 <= q
    BY DEF Proc
  <2>2. \A q \in Proc : WakerAhead(q)'
    BY <2>1, <1>6, <1>8, Zenon DEF WakerAhead
  <2> QED
    BY <2>2, <1>2, LKHeld, Zenon DEF WithLK
<1>13. \A l \in Lock : lock'[l] # lock[l] => lock[l] \in {c, NoCPU} /\ lock'[l] \in {c, NoCPU}
  BY <1>2, <1>9, Zenon DEF Lock, LK
<1> QED
  BY <1>0, <1>2, <1>7, <1>8, <1>10, <1>11, <1>12, <1>13, CpuStep, Zenon

LEMMA IrqReturnInv == ASSUME IInv, NEW c \in CPU, irq_return(c) PROVE IInv'
<1> DEFINE o == pop_off(cpu[c])
           r == [o EXCEPT !.irq = "none", !.intr = TRUE, !.iscan = 1]
<1>0. /\ cpu[c].irq = "wakeup" /\ cpu[c].iscan = NPROC + 1 /\ proc' = proc /\ cond' = cond
      /\ lock' = [lock EXCEPT ![LK] = NoCPU]
  BY Zenon DEF irq_return
<1>1. /\ TypeOK /\ panicked = "no" /\ cpu[c] \in CpuRec /\ lock[LK] = c /\ cpu[c].noff = 1 /\ ~cpu[c].intr
  BY <1>0, IrqAt, Zenon
<1>2. panicked' = "no"
  BY <1>1 DEF irq_return, Check, Holding, CanPop
<1>3. o \in CpuRec /\ Same(o, cpu[c]) /\ o.noff = 0
  BY <1>1, PopOff
<1>4. cpu' = [cpu EXCEPT ![c] = r]
  BY Zenon DEF irq_return
<1> HIDE DEF o
<1>5. r \in CpuRec
  <2>1. 1 \in 1 .. NPROC + 1
    BY SchedAssumption
  <2> QED
    BY <2>1, <1>3, Zenon DEF CpuRec
<1>6. /\ r.stack = o.stack /\ r.proc = o.proc /\ r.scan = o.scan /\ r.swtched = o.swtched
      /\ r.irq = "none" /\ r.noff = 0
  BY <1>3, Zenon DEF CpuRec
<1> HIDE DEF r
<1>7. r.stack = cpu[c].stack /\ r.proc = cpu[c].proc /\ r.scan = cpu[c].scan /\ r.swtched = cpu[c].swtched
  BY <1>3, <1>6, Zenon DEF Same
<1>8. cpu' \in [CPU -> CpuRec] /\ cpu'[c] = r /\ \A d \in CPU \ {c} : cpu'[d] = cpu[d]
  BY <1>1, <1>4, <1>5, CpuUpdate, Zenon
<1>9. lock' \in [Lock -> CPU \cup {NoCPU}] /\ lock'[LK] = NoCPU /\ \A q \in Proc : lock'[q] = lock[q]
  BY <1>0, <1>1 DEF TypeOK, Lock, LK, Proc
<1>10. TypeOK'
  BY <1>0, <1>1, <1>2, <1>8, <1>9, Zenon DEF TypeOK
<1>11. CpuInv(c)'
  BY <1>0, <1>6, <1>7, <1>8, <1>9, IrqCpu, SchedAssumption, SMTT(30)
<1>12. ASSUME NEW q \in Proc, WakerAhead(q) PROVE WakerAhead(q)'
  <2>1. ~(NPROC + 1 <= q)
    BY SchedAssumption, SMTT(30) DEF Proc
  <2> QED
    BY <2>1, <1>0, <1>8, <1>12, Zenon DEF WakerAhead
<1>13. \A l \in Lock : lock'[l] # lock[l] => lock[l] \in {c, NoCPU} /\ lock'[l] \in {c, NoCPU}
  BY <1>1, <1>9, Zenon DEF Lock, LK
<1> QED
  BY <1>0, <1>2, <1>7, <1>8, <1>10, <1>11, <1>12, <1>13, CpuStep, Zenon

LEMMA IrqWakeupInv == ASSUME IInv, NEW c \in CPU, irq_wakeup(c) PROVE IInv'
<1>q. PICK q \in Proc : q = cpu[c].iscan
  BY Zenon DEF irq_wakeup
<1> DEFINE r == [cpu[c] EXCEPT !.iscan = q + 1]
           Wakes == q # cpu[c].proc /\ proc[q].state = "SLEEPING" /\ proc[q].chan
           W == [proc[q] EXCEPT !.state = "RUNNABLE"]
<1>0. cpu[c].irq = "wakeup" /\ cpu[c].iscan = q /\ lock' = lock /\ cond' = cond
  BY <1>q, Zenon DEF irq_wakeup
<1>1. /\ TypeOK /\ panicked = "no" /\ cpu[c] \in CpuRec /\ lock[LK] = c /\ cpu[c].noff = 1 /\ ~cpu[c].intr
      /\ \A s \in Proc : lock[s] # c
      /\ \A s \in Proc : cpu[c].proc = s => ~Waits(s)
  BY <1>0, IrqAt, Zenon
<1>2. (q # cpu[c].proc => lock[q] = NoCPU) /\ panicked' = "no"
  BY <1>0, <1>1, Zenon DEF irq_wakeup, Acquirable, Check, Holding
<1>3. cpu' = [cpu EXCEPT ![c] = r]
  BY <1>0, <1>1, Zenon DEF irq_wakeup, TypeOK
<1>4. r \in CpuRec
  <2>1. ASSUME NEW n \in 1 .. NPROC + 1 PROVE [cpu[c] EXCEPT !.iscan = n] \in CpuRec
    BY <1>1, Zenon DEF CpuRec
  <2>2. q + 1 \in 1 .. NPROC + 1
    BY SchedAssumption DEF Proc
  <2> QED
    BY <2>1, <2>2, Zenon
<1>5. /\ r.stack = cpu[c].stack /\ r.proc = cpu[c].proc /\ r.scan = cpu[c].scan
      /\ r.swtched = cpu[c].swtched /\ r.irq = cpu[c].irq /\ r.intr = cpu[c].intr /\ r.noff = cpu[c].noff
      /\ r.iscan = q + 1
  BY <1>1, Zenon DEF CpuRec
<1> HIDE DEF r
<1>6. cpu' \in [CPU -> CpuRec] /\ cpu'[c] = r /\ \A d \in CPU \ {c} : cpu'[d] = cpu[d]
  BY <1>1, <1>3, <1>4, CpuUpdate, Zenon
<1>7. proc[q] \in ProcRec
  BY <1>1, Zenon DEF TypeOK
<1>8. W \in ProcRec
  BY <1>7, Zenon DEF ProcRec
<1>9. W.state = "RUNNABLE" /\ W.pc = proc[q].pc /\ W.scan = proc[q].scan /\ W.ret = proc[q].ret
  BY <1>7, Zenon DEF ProcRec
<1>10. /\ Wakes => proc' = [proc EXCEPT ![q] = W]
       /\ ~Wakes => proc' = proc
  BY <1>0, Zenon DEF irq_wakeup, Woken
<1> HIDE DEF W
<1>11. /\ proc' \in [Proc -> ProcRec] /\ \A s \in Proc \ {q} : proc'[s] = proc[s]
       /\ Wakes => proc'[q] = W
       /\ \A s \in Proc : proc'[s].pc = proc[s].pc /\ proc'[s].scan = proc[s].scan
  BY <1>1, <1>8, <1>9, <1>10, SMTT(30) DEF TypeOK
<1>12. TypeOK'
  BY <1>0, <1>1, <1>2, <1>6, <1>11, Zenon DEF TypeOK
<1>13. CpuInv(c)'
  BY <1>0, <1>1, <1>5, <1>6, <1>11, IrqCpu, ZenonT(40)
<1>14. ASSUME NEW s \in Proc, s # q, WakerAhead(s) PROVE WakerAhead(s)'
  <2>1. CASE \E t \in Proc : proc[t].pc = "wakeup" /\ proc[t].scan <= s
    BY <2>1, <1>11, Zenon DEF WakerAhead
  <2>2. CASE \E d \in CPU : cpu[d].irq = "wakeup" /\ cpu[d].iscan <= s
    <3>1. PICK d \in CPU : cpu[d].irq = "wakeup" /\ cpu[d].iscan <= s
      BY <2>2, Zenon
    <3>2. CASE d = c
      <4>1. q + 1 <= s
        BY <1>0, <1>14, <3>1, <3>2 DEF Proc
      <4> QED
        BY <4>1, <1>0, <1>5, <1>6, Zenon DEF WakerAhead
    <3>3. CASE d # c
      BY <3>1, <3>3, <1>6, Zenon DEF WakerAhead
    <3> QED
      BY <3>2, <3>3, Zenon
  <2> QED
    BY <1>14, <2>1, <2>2, Zenon DEF WakerAhead
<1>15. CASE ~Wakes
  <2>1. ASSUME NEW s \in Proc, Waits(s), WakerAhead(s) PROVE WakerAhead(s)'
    <3>1. CASE s = q
      BY <3>1, <2>1, <1>1, <1>2, <1>15, WaitsHeld, Zenon
    <3>2. CASE s # q
      BY <3>2, <2>1, <1>14, Zenon
    <3> QED
      BY <3>1, <3>2, Zenon
  <2>2. \A l \in Lock : lock'[l] # lock[l] => lock[l] \in {c, NoCPU} /\ lock'[l] \in {c, NoCPU}
    BY <1>0, Zenon
  <2>3. /\ panicked' = "no" /\ proc' = proc /\ c \in CPU /\ cpu'[c].stack = cpu[c].stack
        /\ cpu'[c].proc \in {Idle, cpu[c].proc} /\ \A d \in CPU \ {c} : cpu'[d] = cpu[d]
    BY <1>0, <1>2, <1>5, <1>6, <1>10, <1>15, Zenon
  <2>4. \A s \in Proc : cond' => cond \/ (WakerAhead(s)' /\ proc[s].pc \notin {"sleep1", "sleep2"})
    BY <1>0, Zenon
  <2>5. \A s \in Proc : Waits(s) /\ WakerAhead(s) => WakerAhead(s)'
    BY <2>1, Zenon
  <2> QED
    BY <2>2, <2>3, <2>4, <2>5, <1>12, <1>13, CpuStep, Zenon
<1>16. CASE Wakes
  <2>1. Waits(q) /\ ThreadInv(q)
    BY <1>16, Zenon DEF Waits, IInv
  <2>2. proc[q].pc = "sleep5" /\ \A d \in CPU : cpu[d].stack # q
    BY <2>1, <1>2, <1>16, WaitsHeld, Zenon
  <2>3. \A d \in CPU : cpu'[d].stack = cpu[d].stack
    BY <1>5, <1>6, Zenon
  <2>4. ThreadInv(q)'
    BY <2>2, <2>3, <1>9, <1>11, <1>16, SMTT(30) DEF ThreadInv, Parked
  <2>5. \A d \in CPU \ {c} : /\ cpu'[d] = cpu[d] /\ cpu[d].stack \notin {q}
                             /\ cpu'[c].proc = Idle \/ cpu[d].proc # cpu'[c].proc
    BY <2>2, <1>5, <1>6, SMTT(30) DEF IInv, OneProc
  <2>6. \A l \in Lock : lock'[l] # lock[l] => lock[l] \in {c, NoCPU} /\ lock'[l] \in {c, NoCPU}
    BY <1>0, Zenon
  <2>7. \A s \in Proc \ {q} : /\ proc'[s] = proc[s]
                              /\ cpu'[c].stack = s <=> cpu[c].stack = s
                              /\ cond' => cond \/ (WakerAhead(s)' /\ proc[s].pc \notin {"sleep1", "sleep2"})
                              /\ Waits(s) /\ WakerAhead(s) => WakerAhead(s)'
    BY <1>0, <2>3, <1>11, <1>14, Zenon
  <2>8. {q} \in SUBSET Proc /\ \A s \in {q} : ThreadInv(s)'
    BY <2>4, Zenon
  <2> QED
    BY <2>5, <2>6, <2>7, <2>8, <1>2, <1>12, <1>13, Step, Zenon
<1> QED
  BY <1>15, <1>16, Zenon

-----------------------------------------------------------------------------
LEMMA StepInv == IInv /\ [Next]_vars => IInv'
<1> SUFFICES ASSUME IInv, [Next]_vars PROVE IInv'
  BY Zenon
<1>1. ASSUME NEW c \in CPU, scheduler(c) PROVE IInv'
  BY <1>1, LoopInv, RunInv, BackInv, Zenon DEF scheduler
<1>2. ASSUME NEW c \in CPU, irq_enter(c) \/ irq(c) PROVE IInv'
  BY <1>2, IrqEnterInv, IrqSetInv, IrqWakeupInv, IrqReturnInv, Zenon DEF irq
<1>3. ASSUME NEW c \in CPU, NEW p \in Proc, sleep(c, p) \/ yield(c, p) PROVE IInv'
  BY <1>3, SleepAcquireInv, SleepReleaseInv, SleepStateInv, LeaveStackInv, SleepWakeInv,
     YieldAcquireInv, YieldReturnInv, Zenon DEF sleep, yield
<1>4. ASSUME NEW c \in CPU, NEW p \in Proc, thread(c, p) PROVE IInv'
  BY <1>3, <1>4, ForkretInv, WaitInv, SetCondInv, WakeupInv, SetReleaseInv, Zenon DEF thread
<1>5. ASSUME NEW c \in CPU, NEW p \in Proc, Syscall(c, p) \/ timer(c, p) PROVE IInv'
  BY <1>5, SyscallInv, TimerInv, Zenon
<1>6. CASE UNCHANGED vars
  <2> USE <1>6 DEF vars
  <2>1. TypeOK' /\ OneProc' /\ panicked' = "no"
    BY Zenon DEF IInv, TypeOK, OneProc
  <2>2. ASSUME NEW c \in CPU PROVE CpuInv(c)'
    BY SMTT(30) DEF IInv, CpuInv, OwnsLK, OwnsProc
  <2>3. ASSUME NEW p \in Proc PROVE ThreadInv(p)'
    BY Zenon DEF IInv, ThreadInv, WakerAhead
  <2> QED
    BY <2>1, <2>2, <2>3, Zenon DEF IInv
<1> QED
  BY <1>1, <1>2, <1>4, <1>5, <1>6, Zenon DEF Next

LEMMA Invariance == Spec => []IInv
BY InitInv, StepInv, PTL DEF Spec

\* On any number of CPUs and processes, in every interleaving of scheduler(),
\* sleep(), wakeup(), yield() and interrupts: no assertion of acquire(),
\* release(), pop_off() and sched() fails, and c->proc agrees with the states.
THEOREM SchedulerSafe == Spec => []SchedInv
<1>1. IInv => SchedInv
  <2> SUFFICES ASSUME IInv PROVE SchedInv
    BY SMTT(30)
  <2>1. ASSUME NEW p \in Proc, lock[p] = NoCPU, proc[p].state = "RUNNING"
        PROVE  \E c \in CPU : cpu[c].proc = p
    <3>1. PICK c \in CPU : cpu[c].stack = p
      BY <2>1, Zenon DEF IInv, ThreadInv
    <3> QED
      BY <3>1, SMTT(30) DEF IInv, CpuInv, Idle, Proc
  <2>2. ASSUME NEW p \in Proc, lock[p] = NoCPU, NEW c \in CPU, cpu[c].proc = p
        PROVE  proc[p].state = "RUNNING"
    <3>1. CpuInv(c) /\ p # Idle /\ lock[p] # c
      BY <2>2, SchedAssumption, SMTT(30) DEF IInv, Idle, Proc
    <3>2. cpu[c].stack = p /\ proc[p].pc \notin WithOwn
      BY <2>2, <3>1, Zenon DEF CpuInv, OwnsProc
    <3> QED
      BY <3>2, Zenon DEF IInv, ThreadInv, WithOwn
  <2> QED
    BY <2>1, <2>2, Zenon DEF IInv, SchedInv, RunningHasCPU
<1> QED
  BY <1>1, Invariance, PTL

\* No two CPUs execute on one kernel stack: yield() and sleep() give p up with
\* p->lock held, and only the scheduler that left p's stack releases it.
THEOREM StacksDisjoint == Spec => []OneCPUPerStack
<1>1. IInv => OneCPUPerStack
  <2> SUFFICES ASSUME IInv, NEW c \in CPU, NEW d \in CPU, cpu[c].stack = cpu[d].stack, cpu[c].stack # Idle
               PROVE  c = d
    BY Zenon DEF OneCPUPerStack
  <2>1. CpuInv(c) /\ CpuInv(d)
    BY Zenon DEF IInv
  <2>2. cpu[c].proc = cpu[c].stack /\ cpu[d].proc = cpu[d].stack
    BY <2>1, Zenon DEF CpuInv
  <2> QED
    BY <2>2, Zenon DEF IInv, OneProc
<1> QED
  BY <1>1, Invariance, PTL

\* No wakeup is lost: whoever is SLEEPING although the condition holds has a
\* wakeup() ahead that has not reached it, of a thread or of an interrupt.
THEOREM WakeupsReach == Spec => []NoLostWakeup
<1>1. IInv => NoLostWakeup
  BY Zenon DEF IInv, ThreadInv, NoLostWakeup
<1> QED
  BY <1>1, Invariance, PTL
=============================================================================
