-------------------------------- MODULE Pipe -------------------------------
(***************************************************************************)
(* kernel/pipe.c, with the file references of kernel/file.c that keep a    *)
(* pipe open: any number of processes write, read, close their ends and    *)
(* are killed.  pi->lock is held from acquire to release or sleep, which   *)
(* takes several steps: one per byte copied.                               *)
(***************************************************************************)
EXTENDS Integers, Sequences, FiniteSets

CONSTANTS Proc, Byte,
          Readers, Writers,  \* who has the read end and the write end at first
          PIPESIZE,
          UINT,          \* nread and nwrite count modulo UINT (2^32 in C)
          MAXN,          \* bound on the n of a read or a write
          Killable,      \* processes that a kill() may hit
          None           \* pi->lock is free

ASSUME PipeAssumption ==
  /\ IsFiniteSet(Proc) /\ None \notin Proc /\ Killable \subseteq Proc
  /\ Readers \subseteq Proc /\ Readers # {} /\ Writers \subseteq Proc /\ Writers # {}
  /\ Byte # {} /\ PIPESIZE \in Nat \ {0} /\ MAXN \in Nat \ {0}
  /\ UINT \in Nat /\ UINT > PIPESIZE /\ UINT % PIPESIZE = 0

VARIABLES
  data, nread, nwrite, readopen, writeopen,  \* struct pipe
  lock,        \* holder of pi->lock
  freed,       \* kfree(pi) was called
  rfd, wfd,    \* who refers to the read end's and the write end's struct file
  pc, left,    \* where each process stands, and how many bytes its call has left
  killed

pipe == <<data, nread, nwrite, readopen, writeopen>>
refs == <<freed, rfd, wfd>>
vars == <<pipe, lock, refs, pc, left, killed>>

PC == {"idle", "write", "wtested", "wsleep", "rwait", "rtested", "rsleep", "rcopy"}

Empty == nread = nwrite
MutantFull == nwrite = (nread + PIPESIZE + 1) % UINT      \* off by one

Full == nwrite = (nread + PIPESIZE) % UINT
Goto(p, l) == pc' = [pc EXCEPT ![p] = l]
Acquire(p) == lock = None /\ lock' = p
Release(p) == lock' = None

\* pc after wakeup(chan), for those who sleep at l, and with p moved to m
WakeMove(l, p, m) ==
  [q \in Proc |-> IF q = p THEN m
                  ELSE IF pc[q] = l THEN (IF l = "rsleep" THEN "rwait" ELSE "write")
                  ELSE pc[q]]
Woken(l) == WakeMove(l, None, "idle")
\* p returns from its call: its locals are gone.
Return(p) == Release(p) /\ left' = [left EXCEPT ![p] = 0]
Returns(l, p) == Return(p) /\ pc' = WakeMove(l, p, "idle")

-----------------------------------------------------------------------------
(* pipewrite(): the process waits for pi->lock with pc = "write" after it  *)
(* was woken; it holds the lock while lock = p.                            *)

write_start(p) ==
  /\ pc[p] = "idle" /\ p \in wfd /\ Acquire(p)
  /\ \E n \in 1 .. MAXN : left' = [left EXCEPT ![p] = n]
  /\ Goto(p, "write")
  /\ UNCHANGED <<pipe, refs, killed>>

\* sleep() returns with pi->lock held.
write_awake(p) ==
  /\ pc[p] = "write" /\ Acquire(p)
  /\ UNCHANGED <<pipe, refs, pc, left, killed>>

Writing(p) == pc[p] = "write" /\ lock = p /\ left[p] > 0

\* No reader, or killed: return -1.
write_fail(p) ==
  /\ Writing(p) /\ (~readopen \/ killed[p])
  /\ Return(p) /\ Goto(p, "idle")
  /\ UNCHANGED <<pipe, refs, killed>>

\* killed(pr) has released p->lock: a kill() from here on is not seen.
write_test(p) ==
  /\ Writing(p) /\ readopen /\ ~killed[p]
  /\ Goto(p, "wtested")
  /\ UNCHANGED <<pipe, lock, refs, left, killed>>

write_full(p) ==
  /\ pc[p] = "wtested" /\ Full
  /\ pc' = WakeMove("rsleep", p, "wsleep")
  /\ Release(p)
  /\ UNCHANGED <<pipe, refs, left, killed>>

write_byte(p) ==
  /\ pc[p] = "wtested" /\ ~Full
  /\ \E ch \in Byte : data' = [data EXCEPT ![nwrite % PIPESIZE] = ch]
  /\ nwrite' = (nwrite + 1) % UINT
  /\ left' = [left EXCEPT ![p] = @ - 1]
  /\ Goto(p, "write")
  /\ UNCHANGED <<nread, readopen, writeopen, lock, refs, killed>>

\* The loop is done, or copyin() fails: wakeup(&pi->nread) and return i.
write_end(p) ==
  /\ \/ pc[p] = "write" /\ lock = p /\ left[p] = 0
     \/ pc[p] = "wtested" /\ ~Full
  /\ Returns("rsleep", p)
  /\ UNCHANGED <<pipe, refs, killed>>

-----------------------------------------------------------------------------
(* piperead()                                                              *)

read_start(p) ==
  /\ pc[p] = "idle" /\ p \in rfd /\ Acquire(p)
  /\ \E n \in 1 .. MAXN : left' = [left EXCEPT ![p] = n]
  /\ Goto(p, "rwait")
  /\ UNCHANGED <<pipe, refs, killed>>

read_awake(p) ==
  /\ pc[p] = "rwait" /\ Acquire(p)
  /\ UNCHANGED <<pipe, refs, pc, left, killed>>

read_killed(p) ==
  /\ pc[p] = "rwait" /\ lock = p /\ Empty /\ writeopen /\ killed[p]
  /\ Return(p) /\ Goto(p, "idle")
  /\ UNCHANGED <<pipe, refs, killed>>

read_test(p) ==
  /\ pc[p] = "rwait" /\ lock = p /\ Empty /\ writeopen /\ ~killed[p]
  /\ Goto(p, "rtested")
  /\ UNCHANGED <<pipe, lock, refs, left, killed>>

read_sleep(p) ==
  /\ pc[p] = "rtested"
  /\ Release(p) /\ Goto(p, "rsleep")
  /\ UNCHANGED <<pipe, refs, left, killed>>

MutantReadReady(p) ==               \* spins at the end of the file
  /\ pc[p] = "rwait" /\ lock = p /\ ~Empty
  /\ Goto(p, "rcopy")
  /\ UNCHANGED <<pipe, lock, refs, left, killed>>

read_ready(p) ==
  /\ pc[p] = "rwait" /\ lock = p /\ (~Empty \/ ~writeopen)
  /\ Goto(p, "rcopy")
  /\ UNCHANGED <<pipe, lock, refs, left, killed>>

read_byte(p) ==
  /\ pc[p] = "rcopy" /\ left[p] > 0 /\ ~Empty
  /\ nread' = (nread + 1) % UINT
  /\ left' = [left EXCEPT ![p] = @ - 1]
  /\ UNCHANGED <<data, nwrite, readopen, writeopen, lock, refs, pc, killed>>

\* copyout() fails: the byte is gone, and the call returns without it.
read_fault(p) ==
  /\ pc[p] = "rcopy" /\ left[p] > 0 /\ ~Empty
  /\ nread' = (nread + 1) % UINT
  /\ Returns("wsleep", p)
  /\ UNCHANGED <<data, nwrite, readopen, writeopen, refs, killed>>

MutantReadEnd(p) ==                 \* no wakeup(&pi->nwrite)
  /\ pc[p] = "rcopy" /\ (left[p] = 0 \/ Empty)
  /\ Return(p) /\ Goto(p, "idle")
  /\ UNCHANGED <<pipe, refs, killed>>

read_end(p) ==
  /\ pc[p] = "rcopy" /\ (left[p] = 0 \/ Empty)
  /\ Returns("wsleep", p)
  /\ UNCHANGED <<pipe, refs, killed>>

-----------------------------------------------------------------------------
(* fileclose() drops a reference; the last one of an end runs pipeclose(). *)

MutantCloseRead(p) ==               \* frees the page with writers left
  /\ pc[p] = "idle" /\ rfd = {p} /\ lock = None
  /\ rfd' = {}
  /\ readopen' = FALSE
  /\ pc' = Woken("wsleep")
  /\ freed' = TRUE
  /\ UNCHANGED <<data, nread, nwrite, writeopen, lock, wfd, left, killed>>

pipeclose_read(p) ==
  /\ pc[p] = "idle" /\ rfd = {p} /\ lock = None
  /\ rfd' = {}
  /\ readopen' = FALSE
  /\ pc' = Woken("wsleep")
  /\ freed' = ~writeopen
  /\ UNCHANGED <<data, nread, nwrite, writeopen, lock, wfd, left, killed>>

pipeclose_write(p) ==
  /\ pc[p] = "idle" /\ wfd = {p} /\ lock = None
  /\ wfd' = {}
  /\ writeopen' = FALSE
  /\ pc' = Woken("rsleep")
  /\ freed' = ~readopen
  /\ UNCHANGED <<data, nread, nwrite, readopen, lock, rfd, left, killed>>

fileclose_read(p) ==
  /\ pc[p] = "idle" /\ p \in rfd /\ rfd # {p}
  /\ rfd' = rfd \ {p}
  /\ UNCHANGED <<pipe, lock, freed, wfd, pc, left, killed>>

fileclose_write(p) ==
  /\ pc[p] = "idle" /\ p \in wfd /\ wfd # {p}
  /\ wfd' = wfd \ {p}
  /\ UNCHANGED <<pipe, lock, freed, rfd, pc, left, killed>>

\* kill(): marks the process and wakes it wherever it sleeps.
kill(p) ==
  /\ p \in Killable /\ ~killed[p]
  /\ killed' = [killed EXCEPT ![p] = TRUE]
  /\ pc' = [pc EXCEPT ![p] = CASE @ = "rsleep" -> "rwait" [] @ = "wsleep" -> "write"
                               [] OTHER -> @]
  /\ UNCHANGED <<pipe, lock, refs, left>>

-----------------------------------------------------------------------------
\* After sys_pipe(), and the forks and closes that hand out the two ends.
\* kalloc() filled the page with one byte.
Init ==
  /\ data = [i \in 0 .. PIPESIZE - 1 |-> CHOOSE b \in Byte : TRUE]
  /\ nread = 0 /\ nwrite = 0 /\ readopen = TRUE /\ writeopen = TRUE
  /\ lock = None /\ freed = FALSE /\ rfd = Readers /\ wfd = Writers
  /\ pc = [p \in Proc |-> "idle"] /\ left = [p \in Proc |-> 0]
  /\ killed = [p \in Proc |-> FALSE]

pipewrite(p) ==
  \/ write_awake(p) \/ write_fail(p) \/ write_test(p) \/ write_full(p)
  \/ write_byte(p) \/ write_end(p)
piperead(p) ==
  \/ read_awake(p) \/ read_killed(p) \/ read_test(p) \/ read_sleep(p) \/ read_ready(p)
  \/ read_byte(p) \/ read_fault(p) \/ read_end(p)
close(p) ==
  pipeclose_read(p) \/ pipeclose_write(p) \/ fileclose_read(p) \/ fileclose_write(p)

Next ==
  \E p \in Proc : \/ write_start(p) \/ pipewrite(p) \/ read_start(p) \/ piperead(p)
                  \/ close(p) \/ kill(p)

Spec == Init /\ [][Next]_vars

(* A process in the kernel goes on, and gets pi->lock if it is free again  *)
(* and again; nothing makes a program call read, write or close.           *)
Fairness == \A p \in Proc : SF_vars(pipewrite(p) \/ piperead(p))
FairSpec == Spec /\ Fairness

-----------------------------------------------------------------------------
TypeOK ==
  /\ data \in [0 .. PIPESIZE - 1 -> Byte]
  /\ nread \in 0 .. UINT - 1 /\ nwrite \in 0 .. UINT - 1
  /\ readopen \in BOOLEAN /\ writeopen \in BOOLEAN
  /\ lock \in Proc \cup {None} /\ freed \in BOOLEAN
  /\ rfd \subseteq Proc /\ wfd \subseteq Proc
  /\ pc \in [Proc -> PC] /\ left \in [Proc -> 0 .. MAXN] /\ killed \in [Proc -> BOOLEAN]

\* The bytes in the circular buffer, oldest first.
Count == (nwrite - nread) % UINT
Queue == [i \in 1 .. Count |-> data[(nread + i - 1) % PIPESIZE]]

Abstract == INSTANCE Fifo WITH queue <- Queue, readers <- readopen, writers <- writeopen

\* The circular buffer, whose indices wrap and whose counters overflow, is a
\* FIFO queue of at most PIPESIZE bytes.
ImplementsFifo == Abstract!Spec

\* The page of a pipe is freed with both ends closed, and never under a
\* process that is still in pipewrite or piperead.
NoUseAfterFree == freed => rfd = {} /\ wfd = {} /\ \A p \in Proc : pc[p] = "idle"

\* Types, and the life of the page.
PipeInv == TypeOK /\ NoUseAfterFree

\* With pi->lock free, a reader sleeps only on an open, empty pipe and a
\* writer only on an open, full one: no wakeup was missed or left out, but for
\* the readers that a writer killed in the middle of its call did not wake.
SleepersHaveReason ==
  lock = None =>
    \A p \in Proc : /\ pc[p] = "rsleep" => writeopen /\ (Empty \/ \E q \in Writers : killed[q])
                    /\ pc[p] = "wsleep" => Full /\ readopen

\* Readers do not starve on a pipe that was closed, nor writers on one that
\* nobody reads any more: both return.
ClosedReturns ==
  \A p \in Proc : (freed \/ ~writeopen \/ ~readopen) /\ pc[p] # "idle" ~> pc[p] = "idle"
=============================================================================
