----------------------------- MODULE PipeProofs -----------------------------
(* Pipe, for any number of processes, any size of the pipe and any width   *)
(* of its counters: nothing is used after it is freed, and no sleeper is   *)
(* forgotten.                                                              *)
EXTENDS Pipe, Residues, TLAPS

Reading == {"rwait", "rtested", "rsleep", "rcopy"}
InWrite == {"write", "wtested", "wsleep"}
WriterKilled == \E q \in Writers : killed[q]

\* An end is open as long as somebody refers to it, as whoever is in a call does.
RefsInv ==
  /\ readopen <=> rfd # {}
  /\ writeopen <=> wfd # {}
  /\ freed <=> ~readopen /\ ~writeopen
  /\ wfd \subseteq Writers
  /\ \A p \in Proc : /\ pc[p] \in Reading => p \in rfd
                     /\ pc[p] \in InWrite => p \in wfd

\* Where a process holds pi->lock, and what it has found out under it
LockInv ==
  /\ \A p \in Proc : lock = p => pc[p] \in {"write", "wtested", "rwait", "rtested", "rcopy"}
  /\ \A p \in Proc : pc[p] \in {"wtested", "rtested", "rcopy"} => lock = p
  /\ \A p \in Proc : pc[p] = "wtested" => readopen
  /\ \A p \in Proc : pc[p] = "wtested" => left[p] > 0
  /\ \A p \in Proc : pc[p] = "rtested" => Empty /\ writeopen

\* A writer that has the lock will wake the readers, unless it is killed; a
\* reader that copies will wake the writers.
WriterAt == \E q \in Proc : lock = q /\ pc[q] \in {"write", "wtested"}
CopierAt == \E q \in Proc : lock = q /\ pc[q] = "rcopy"
SleepInv ==
  \A p \in Proc :
    /\ pc[p] = "rsleep" => writeopen /\ (Empty \/ WriterKilled \/ WriterAt)
    /\ pc[p] = "wsleep" => readopen /\ (Full \/ CopierAt)

IInv == TypeOK /\ RefsInv /\ LockInv /\ SleepInv

-----------------------------------------------------------------------------
LEMMA ModType ==
  ASSUME NEW n \in Nat PROVE n % UINT \in 0 .. UINT - 1 /\ n % PIPESIZE \in 0 .. PIPESIZE - 1
BY PipeAssumption

LEMMA InitInv == Init => IInv
<1> SUFFICES ASSUME Init PROVE IInv
  BY Zenon
<1> USE PipeAssumption DEF Init
<1>0. (CHOOSE b \in Byte : TRUE) \in Byte /\ 0 \in 0 .. UINT - 1 /\ 0 \in 0 .. MAXN
  OBVIOUS
<1>3. /\ data \in [0 .. PIPESIZE - 1 -> Byte] /\ nread \in 0 .. UINT - 1 /\ nwrite \in 0 .. UINT - 1
      /\ pc \in [Proc -> PC] /\ left \in [Proc -> 0 .. MAXN]
  BY <1>0, Zenon DEF PC
<1>4. killed \in [Proc -> BOOLEAN] /\ readopen \in BOOLEAN /\ writeopen \in BOOLEAN /\ freed \in BOOLEAN
  BY Zenon
<1>1. TypeOK
  BY <1>3, <1>4, Zenon DEF TypeOK
<1>2. RefsInv /\ LockInv /\ SleepInv
  BY Zenon DEF RefsInv, LockInv, SleepInv, Reading, InWrite
<1> QED
  BY <1>1, <1>2, Zenon DEF IInv

\* A process moves without a wakeup, under the lock or to take or drop it.
LEMMA WriteInv == ASSUME IInv, NEW p \in Proc, write_start(p) \/ pipewrite(p) PROVE IInv'
<1> USE PipeAssumption
<1>t. TypeOK
  BY Zenon DEF IInv
<1>1. CASE write_start(p)
  <2> USE <1>1 DEF write_start, Acquire, Goto, pipe, refs
  <2>1. TypeOK'
    BY <1>t DEF TypeOK, PC
  <2>2. RefsInv' /\ LockInv'
    BY DEF IInv, TypeOK, RefsInv, LockInv, Reading, InWrite, Empty
  <2>3. SleepInv'
    BY DEF IInv, TypeOK, SleepInv, LockInv, WriterKilled, WriterAt, CopierAt, Empty, Full
  <2> QED
    BY <2>1, <2>2, <2>3, Zenon DEF IInv
<1>2. CASE write_awake(p)
  <2> USE <1>2 DEF write_awake, Acquire, pipe, refs
  <2>1. TypeOK'
    BY <1>t, Zenon DEF TypeOK, PC
  <2>2. RefsInv' /\ LockInv'
    BY DEF IInv, TypeOK, RefsInv, LockInv, Reading, InWrite, Empty
  <2>3. SleepInv'
    BY Zenon DEF IInv, TypeOK, SleepInv, LockInv, WriterKilled, WriterAt, CopierAt, Empty, Full
  <2> QED
    BY <2>1, <2>2, <2>3, Zenon DEF IInv
<1>3. CASE write_fail(p)
  <2> USE <1>3 DEF write_fail, Writing, Return, Release, Goto, pipe, refs
  <2>1. TypeOK'
    BY <1>t DEF TypeOK, PC
  <2>2. RefsInv' /\ LockInv'
    BY DEF IInv, TypeOK, RefsInv, LockInv, Reading, InWrite, Empty
  <2>3. ASSUME NEW q \in Proc, pc'[q] = "rsleep" PROVE writeopen /\ (Empty \/ WriterKilled)
    <3>1. pc[q] = "rsleep" /\ rfd # {} /\ p \in Writers
      BY <2>3, <1>t, Zenon DEF IInv, TypeOK, RefsInv, Reading, InWrite
    <3>2. killed[p]
      BY <3>1, Zenon DEF IInv, RefsInv
    <3> QED
      BY <3>1, <3>2, Zenon DEF WriterKilled, IInv, SleepInv
  <2>4. SleepInv'
    BY <2>3, <1>t DEF IInv, TypeOK, SleepInv, LockInv, WriterKilled, WriterAt, CopierAt, Empty, Full
  <2> QED
    BY <2>1, <2>2, <2>4, Zenon DEF IInv
<1>4. CASE write_test(p)
  <2> USE <1>4 DEF write_test, Writing, Goto, pipe, refs
  <2>1. TypeOK'
    BY <1>t, Zenon DEF TypeOK, PC
  <2>2. RefsInv' /\ LockInv'
    BY DEF IInv, TypeOK, RefsInv, LockInv, Reading, InWrite, Empty
  <2>3. SleepInv'
    BY DEF IInv, TypeOK, SleepInv, LockInv, WriterKilled, WriterAt, CopierAt, Empty, Full
  <2> QED
    BY <2>1, <2>2, <2>3, Zenon DEF IInv
<1>5. CASE write_full(p)
  <2> USE <1>5 DEF write_full, WakeMove, Release, pipe, refs
  <2>1. TypeOK'
    BY <1>t, Zenon DEF TypeOK, PC
  <2>2. RefsInv' /\ LockInv'
    BY Zenon DEF IInv, TypeOK, RefsInv, LockInv, Reading, InWrite, Empty
  <2>3. SleepInv'
    BY Zenon DEF IInv, TypeOK, SleepInv, LockInv, WriterKilled, WriterAt, CopierAt, Empty, Full
  <2> QED
    BY <2>1, <2>2, <2>3, Zenon DEF IInv
<1>6. CASE write_byte(p)
  <2> USE <1>6 DEF write_byte, Goto, refs
  <2>0. left[p] - 1 \in 0 .. MAXN
    BY <1>t DEF TypeOK, IInv, LockInv
  <2>7. nwrite \in Nat /\ nwrite + 1 \in Nat
    BY <1>t DEF TypeOK
  <2>1. (nwrite + 1) % UINT \in 0 .. UINT - 1 /\ nwrite % PIPESIZE \in 0 .. PIPESIZE - 1
    BY <2>7, ModType, Zenon
  <2>5. data' \in [0 .. PIPESIZE - 1 -> Byte]
    <3>1. PICK ch \in Byte : data' = [data EXCEPT ![nwrite % PIPESIZE] = ch]
      BY Zenon
    <3>2. data \in [0 .. PIPESIZE - 1 -> Byte]
      BY <1>t, Zenon DEF TypeOK
    <3> HIDE <1>6 DEF write_byte
    <3> QED
      BY <3>1, <3>2, Zenon
  <2>6. left' \in [Proc -> 0 .. MAXN] /\ pc' \in [Proc -> PC]
    BY <1>t, <2>0, Zenon DEF TypeOK, PC
  <2>4. TypeOK'
    BY <1>t, <2>1, <2>5, <2>6, Zenon DEF TypeOK
  <2>2. RefsInv' /\ LockInv'
    BY DEF IInv, TypeOK, RefsInv, LockInv, Reading, InWrite, Empty
  <2>3. SleepInv'
    BY DEF IInv, TypeOK, SleepInv, LockInv, WriterKilled, WriterAt, CopierAt, Empty, Full
  <2> QED
    BY <2>4, <2>2, <2>3, Zenon DEF IInv
<1>7. CASE write_end(p)
  <2> USE <1>7 DEF write_end, Returns, Return, WakeMove, Release, pipe, refs
  <2>1. TypeOK'
    BY <1>t DEF TypeOK, PC
  <2>2. RefsInv' /\ LockInv'
    BY DEF IInv, TypeOK, RefsInv, LockInv, Reading, InWrite, Empty
  <2>3. SleepInv'
    BY Zenon DEF IInv, TypeOK, SleepInv, LockInv, WriterKilled, WriterAt, CopierAt, Empty, Full
  <2> QED
    BY <2>1, <2>2, <2>3, Zenon DEF IInv
<1> QED
  BY <1>1, <1>2, <1>3, <1>4, <1>5, <1>6, <1>7, Zenon DEF pipewrite

\* A reader that copies holds the lock until it wakes the writers.
LEMMA ReadInv == ASSUME IInv, NEW p \in Proc, read_start(p) \/ piperead(p) PROVE IInv'
<1> USE PipeAssumption
<1>t. TypeOK
  BY Zenon DEF IInv
<1>n. nread + 1 \in Nat
  BY <1>t DEF TypeOK
<1>m. (nread + 1) % UINT \in 0 .. UINT - 1
  BY <1>n, ModType, Zenon
<1>1. CASE read_start(p)
  <2> USE <1>1 DEF read_start, Acquire, Goto, pipe, refs
  <2>1. TypeOK'
    BY <1>t DEF TypeOK, PC
  <2>2. RefsInv' /\ LockInv'
    BY DEF IInv, TypeOK, RefsInv, LockInv, Reading, InWrite, Empty
  <2>3. SleepInv'
    BY DEF IInv, TypeOK, SleepInv, LockInv, WriterKilled, WriterAt, CopierAt, Empty, Full
  <2> QED
    BY <2>1, <2>2, <2>3, Zenon DEF IInv
<1>2. CASE read_awake(p)
  <2> USE <1>2 DEF read_awake, Acquire, pipe, refs
  <2>1. TypeOK'
    BY <1>t, Zenon DEF TypeOK, PC
  <2>2. RefsInv' /\ LockInv'
    BY DEF IInv, TypeOK, RefsInv, LockInv, Reading, InWrite, Empty
  <2>3. SleepInv'
    BY DEF IInv, TypeOK, SleepInv, LockInv, WriterKilled, WriterAt, CopierAt, Empty, Full
  <2> QED
    BY <2>1, <2>2, <2>3, Zenon DEF IInv
<1>3. CASE read_killed(p)
  <2> USE <1>3 DEF read_killed, Return, Release, Goto, pipe, refs
  <2>1. TypeOK'
    BY <1>t DEF TypeOK, PC
  <2>2. RefsInv' /\ LockInv'
    BY DEF IInv, TypeOK, RefsInv, LockInv, Reading, InWrite, Empty
  <2>3. SleepInv'
    BY DEF IInv, TypeOK, SleepInv, LockInv, WriterKilled, WriterAt, CopierAt, Empty, Full
  <2> QED
    BY <2>1, <2>2, <2>3, Zenon DEF IInv
<1>4. CASE read_test(p)
  <2> USE <1>4 DEF read_test, Goto, pipe, refs
  <2>1. TypeOK'
    BY <1>t, Zenon DEF TypeOK, PC
  <2>2. RefsInv' /\ LockInv'
    BY DEF IInv, TypeOK, RefsInv, LockInv, Reading, InWrite, Empty
  <2>3. SleepInv'
    BY DEF IInv, TypeOK, SleepInv, LockInv, WriterKilled, WriterAt, CopierAt, Empty, Full
  <2> QED
    BY <2>1, <2>2, <2>3, Zenon DEF IInv
<1>5. CASE read_sleep(p)
  <2> USE <1>5 DEF read_sleep, Release, Goto, pipe, refs
  <2>1. TypeOK'
    BY <1>t, Zenon DEF TypeOK, PC
  <2>2. RefsInv' /\ LockInv'
    BY DEF IInv, TypeOK, RefsInv, LockInv, Reading, InWrite, Empty
  <2>3. SleepInv'
    BY DEF IInv, TypeOK, SleepInv, LockInv, WriterKilled, WriterAt, CopierAt, Empty, Full
  <2> QED
    BY <2>1, <2>2, <2>3, Zenon DEF IInv
<1>6. CASE read_ready(p)
  <2> USE <1>6 DEF read_ready, Goto, pipe, refs
  <2>1. TypeOK'
    BY <1>t, Zenon DEF TypeOK, PC
  <2>2. RefsInv' /\ LockInv'
    BY DEF IInv, TypeOK, RefsInv, LockInv, Reading, InWrite, Empty
  <2>3. SleepInv'
    BY DEF IInv, TypeOK, SleepInv, LockInv, WriterKilled, WriterAt, CopierAt, Empty, Full
  <2> QED
    BY <2>1, <2>2, <2>3, Zenon DEF IInv
<1>7. CASE read_byte(p)
  <2> USE <1>7 DEF read_byte, refs
  <2>1. TypeOK'
    BY <1>t, <1>m DEF TypeOK, PC
  <2>2. RefsInv' /\ LockInv'
    BY Zenon DEF IInv, TypeOK, RefsInv, LockInv, Reading, InWrite, Empty
  <2>3. SleepInv'
    BY Zenon DEF IInv, TypeOK, SleepInv, LockInv, WriterKilled, WriterAt, CopierAt, Empty, Full
  <2> QED
    BY <2>1, <2>2, <2>3, Zenon DEF IInv
<1>8. CASE read_fault(p)
  <2> USE <1>8 DEF read_fault, Returns, Return, WakeMove, Release, refs
  <2>1. TypeOK'
    BY <1>t, <1>m DEF TypeOK, PC
  <2>2. RefsInv' /\ LockInv'
    BY DEF IInv, TypeOK, RefsInv, LockInv, Reading, InWrite, Empty
  <2>3. SleepInv'
    BY Zenon DEF IInv, TypeOK, SleepInv, LockInv, WriterKilled, WriterAt, CopierAt, Empty, Full
  <2> QED
    BY <2>1, <2>2, <2>3, Zenon DEF IInv
<1>9. CASE read_end(p)
  <2> USE <1>9 DEF read_end, Returns, Return, WakeMove, Release, pipe, refs
  <2>1. TypeOK'
    BY <1>t DEF TypeOK, PC
  <2>2. RefsInv' /\ LockInv'
    BY Zenon DEF IInv, TypeOK, RefsInv, LockInv, Reading, InWrite, Empty
  <2>3. SleepInv'
    BY Zenon DEF IInv, TypeOK, SleepInv, LockInv, WriterKilled, WriterAt, CopierAt, Empty, Full
  <2> QED
    BY <2>1, <2>2, <2>3, Zenon DEF IInv
<1> QED
  BY <1>1, <1>2, <1>3, <1>4, <1>5, <1>6, <1>7, <1>8, <1>9, Zenon DEF piperead

\* The last close of an end leaves nobody asleep who waits for it.
LEMMA CloseInv == ASSUME IInv, NEW p \in Proc, close(p) \/ kill(p) PROVE IInv'
<1> USE PipeAssumption
<1>t. TypeOK
  BY Zenon DEF IInv
<1>1. CASE pipeclose_read(p)
  <2> USE <1>1 DEF pipeclose_read, Woken, WakeMove
  <2>4. pc' \in [Proc -> PC] /\ rfd' \subseteq Proc
    BY <1>t, Zenon DEF TypeOK, PC
  <2>5. freed' \in BOOLEAN /\ readopen' \in BOOLEAN
    BY <1>t, Zenon DEF TypeOK
  <2>1. TypeOK'
    BY <1>t, <2>4, <2>5, Zenon DEF TypeOK
  <2>6. freed' <=> ~readopen' /\ ~writeopen'
    BY <1>t, Zenon DEF TypeOK
  <2>7. \A q \in Proc : pc'[q] # pc[q] => pc[q] = "wsleep" /\ pc'[q] = "write"
    BY <1>t, Zenon DEF TypeOK
  <2>8. RefsInv'
    BY <1>t, <2>6, <2>7 DEF IInv, TypeOK, RefsInv, Reading, InWrite
  <2>9. LockInv'
    BY <1>t, <2>7, Zenon DEF IInv, TypeOK, LockInv, Empty
  <2>2. RefsInv' /\ LockInv'
    BY <2>8, <2>9, Zenon
  <2>3. SleepInv'
    BY Zenon DEF IInv, TypeOK, SleepInv, LockInv, WriterKilled, WriterAt, CopierAt, Empty, Full
  <2> QED
    BY <2>1, <2>2, <2>3, Zenon DEF IInv
<1>2. CASE pipeclose_write(p)
  <2> USE <1>2 DEF pipeclose_write, Woken, WakeMove
  <2>4. pc' \in [Proc -> PC] /\ wfd' \subseteq Proc
    BY <1>t, Zenon DEF TypeOK, PC
  <2>5. freed' \in BOOLEAN /\ writeopen' \in BOOLEAN
    BY <1>t, Zenon DEF TypeOK
  <2>1. TypeOK'
    BY <1>t, <2>4, <2>5, Zenon DEF TypeOK
  <2>6. freed' <=> ~readopen' /\ ~writeopen'
    BY <1>t, Zenon DEF TypeOK
  <2>7. \A q \in Proc : pc'[q] # pc[q] => pc[q] = "rsleep" /\ pc'[q] = "rwait"
    BY <1>t, Zenon DEF TypeOK
  <2>8. RefsInv'
    BY <1>t, <2>6, <2>7, Zenon DEF IInv, TypeOK, RefsInv, Reading, InWrite
  <2>9. LockInv'
    BY <1>t, <2>7, Zenon DEF IInv, TypeOK, LockInv, Empty
  <2>2. RefsInv' /\ LockInv'
    BY <2>8, <2>9, Zenon
  <2>3. SleepInv'
    BY DEF IInv, TypeOK, SleepInv, LockInv, WriterKilled, WriterAt, CopierAt, Empty, Full
  <2> QED
    BY <2>1, <2>2, <2>3, Zenon DEF IInv
<1>3. CASE fileclose_read(p)
  <2> USE <1>3 DEF fileclose_read, pipe
  <2>1. TypeOK'
    BY <1>t, Zenon DEF TypeOK, PC
  <2>2. RefsInv' /\ LockInv'
    BY DEF IInv, TypeOK, RefsInv, LockInv, Reading, InWrite, Empty
  <2>3. SleepInv'
    BY Zenon DEF IInv, TypeOK, SleepInv, LockInv, WriterKilled, WriterAt, CopierAt, Empty, Full
  <2> QED
    BY <2>1, <2>2, <2>3, Zenon DEF IInv
<1>4. CASE fileclose_write(p)
  <2> USE <1>4 DEF fileclose_write, pipe
  <2>1. TypeOK'
    BY <1>t, Zenon DEF TypeOK, PC
  <2>2. RefsInv' /\ LockInv'
    BY DEF IInv, TypeOK, RefsInv, LockInv, Reading, InWrite, Empty
  <2>3. SleepInv'
    BY Zenon DEF IInv, TypeOK, SleepInv, LockInv, WriterKilled, WriterAt, CopierAt, Empty, Full
  <2> QED
    BY <2>1, <2>2, <2>3, Zenon DEF IInv
<1>5. CASE kill(p)
  <2> USE <1>5 DEF kill, pipe, refs
  <2>1. TypeOK'
    BY <1>t, Zenon DEF TypeOK, PC
  <2>4. \A q \in Proc : pc'[q] # pc[q] => \/ pc[q] = "rsleep" /\ pc'[q] = "rwait"
                                          \/ pc[q] = "wsleep" /\ pc'[q] = "write"
    BY <1>t, Zenon DEF TypeOK
  <2>5. UNCHANGED <<readopen, writeopen, freed, rfd, wfd, lock, left, nread, nwrite>>
    BY Zenon
  <2>2. RefsInv' /\ LockInv'
    <3> HIDE <1>5
    <3>1. RefsInv'
      BY <2>4, <2>5, Zenon DEF IInv, RefsInv, Reading, InWrite
    <3>2. LockInv'
      BY <2>4, <2>5 DEF IInv, LockInv, Empty
    <3> QED
      BY <3>1, <3>2, Zenon
  <2>3. SleepInv'
    BY SMTT(30) DEF IInv, TypeOK, SleepInv, LockInv, WriterKilled, WriterAt, CopierAt, Empty, Full
  <2> QED
    BY <2>1, <2>2, <2>3, Zenon DEF IInv
<1> QED
  BY <1>1, <1>2, <1>3, <1>4, <1>5, Zenon DEF close

LEMMA StepInv == IInv /\ [Next]_vars => IInv'
<1> SUFFICES ASSUME IInv, [Next]_vars PROVE IInv'
  BY Zenon
<1>1. CASE Next
  BY <1>1, WriteInv, ReadInv, CloseInv, Zenon DEF Next
<1>2. CASE UNCHANGED vars
  BY <1>2, Zenon DEF vars, pipe, refs, IInv, TypeOK, RefsInv, LockInv, SleepInv, WriterKilled,
              WriterAt, CopierAt, Empty, Full
<1> QED
  BY <1>1, <1>2, Zenon

LEMMA PipeInvariant == Spec => []IInv
<1> QED
  BY InitInv, StepInv, PTL DEF Spec

-----------------------------------------------------------------------------
\* The page of a pipe is not freed under a process that is in pipewrite() or
\* piperead(), or that still refers to an end: pipeclose() frees it when the
\* second of the two ends is closed.
THEOREM PipeSafe == Spec => []PipeInv
<1>1. IInv => PipeInv
  BY Zenon DEF IInv, PipeInv, NoUseAfterFree, TypeOK, PC, RefsInv, Reading, InWrite
<1> QED
  BY <1>1, PipeInvariant, PTL

\* Whoever sleeps in pipewrite() or piperead() with pi->lock free has a reason
\* to: a wakeup() of pipe.c is neither missed nor left out, unless a writer
\* was killed in the middle of its call.
THEOREM NoWakeupMissed == Spec => []SleepersHaveReason
<1>1. IInv => SleepersHaveReason
  BY PipeAssumption, Zenon DEF IInv, SleepersHaveReason, SleepInv, WriterKilled, WriterAt, CopierAt
<1> QED
  BY <1>1, PipeInvariant, PTL

-----------------------------------------------------------------------------
(* The circular buffer.  Its indices are residues of residues: nread and   *)
(* nwrite count modulo UINT, and find their byte modulo PIPESIZE.          *)

LEMMA SameByte ==
  ASSUME NEW a \in Int PROVE (a + UINT) % PIPESIZE = a % PIPESIZE
  BY PipeAssumption, SameSlot, Zenon

LEMMA Uint == UINT \in Nat \ {0} /\ 1 \in 0 .. UINT - 1 /\ PIPESIZE \in 0 .. UINT - 1
  BY PipeAssumption

LEMMA CountIs ==
  ASSUME TypeOK
  PROVE  /\ Count \in 0 .. UINT - 1
         /\ Count = IF nwrite >= nread THEN nwrite - nread ELSE nwrite - nread + UINT
<1>1. nread \in 0 .. UINT - 1 /\ nwrite \in 0 .. UINT - 1
  BY Zenon DEF TypeOK
<1> QED
  BY <1>1, Uint, Distance, Zenon DEF Count

LEMMA CountIsNext ==
  ASSUME TypeOK'
  PROVE  /\ Count' \in 0 .. UINT - 1
         /\ Count' = IF nwrite' >= nread' THEN nwrite' - nread' ELSE nwrite' - nread' + UINT
<1>1. nread' \in 0 .. UINT - 1 /\ nwrite' \in 0 .. UINT - 1
  BY Zenon DEF TypeOK
<1> QED
  BY <1>1, Uint, Distance, Zenon DEF Count

LEMMA FullIs == ASSUME TypeOK PROVE Full <=> Count = PIPESIZE
<1>1. nread \in 0 .. UINT - 1 /\ nwrite \in 0 .. UINT - 1 /\ PIPESIZE \in 0 .. UINT - 1 /\ UINT \in Nat
  BY PipeAssumption DEF TypeOK
<1>2. (nread + PIPESIZE) % UINT
        = IF nread + PIPESIZE < UINT THEN nread + PIPESIZE ELSE nread + PIPESIZE - UINT
  BY <1>1, Uint, Wraps, Zenon
<1> QED
  BY <1>1, <1>2, CountIs DEF Full

LEMMA QueueType ==
  ASSUME TypeOK
  PROVE  Count \in Nat /\ Queue \in Seq(Byte) /\ Len(Queue) = Count
<1>1. Count \in Nat /\ nread \in Nat /\ PIPESIZE \in Nat \ {0}
  BY CountIs, PipeAssumption DEF TypeOK
<1>2. \A i \in 1 .. Count : (nread + i - 1) % PIPESIZE \in 0 .. PIPESIZE - 1
  BY <1>1, ModType
<1>3. Queue \in [1 .. Count -> Byte]
  BY <1>2, Zenon DEF Queue, TypeOK
<1> QED
  BY <1>1, <1>3

\* Append and Tail, element by element
LEMMA SeqIs ==
  ASSUME NEW S, NEW s \in Seq(S), NEW n \in Nat, Len(s) = n PROVE s \in [1 .. n -> S]
  OBVIOUS

LEMMA AppendIs ==
  ASSUME NEW S, NEW s \in Seq(S), NEW x \in S, NEW n \in Nat, Len(s) = n
  PROVE  Append(s, x) = [i \in 1 .. n + 1 |-> IF i = n + 1 THEN x ELSE s[i]]
<1>1. Append(s, x) \in Seq(S) /\ Len(Append(s, x)) = n + 1
  OBVIOUS
<1>2. Append(s, x) \in [1 .. n + 1 -> S]
  BY <1>1, n + 1 \in Nat, SeqIs, Zenon
<1>3. \A i \in 1 .. n + 1 : Append(s, x)[i] = IF i = n + 1 THEN x ELSE s[i]
  OBVIOUS
<1> QED
  BY <1>2, <1>3, Zenon

LEMMA TailIs ==
  ASSUME NEW S, NEW s \in Seq(S), NEW n \in Nat, Len(s) = n, n > 0
  PROVE  Tail(s) = [i \in 1 .. n - 1 |-> s[i + 1]]
<1>1. s # << >>
  OBVIOUS
<1>2. Tail(s) \in Seq(S) /\ Len(Tail(s)) = n - 1
  BY <1>1
<1>3. Tail(s) \in [1 .. n - 1 -> S]
  BY <1>2, n - 1 \in Nat, SeqIs, Zenon
<1>4. \A i \in 1 .. n - 1 : Tail(s)[i] = s[i + 1]
  BY <1>1
<1> QED
  BY <1>3, <1>4, Zenon

\* The byte a writer adds becomes the last one, and overwrites none.
LEMMA PutByte ==
  ASSUME TypeOK, TypeOK', Count < PIPESIZE, NEW ch \in Byte,
         data' = [data EXCEPT ![nwrite % PIPESIZE] = ch],
         nwrite' = (nwrite + 1) % UINT, nread' = nread
  PROVE  Count' = Count + 1 /\ Queue' = Append(Queue, ch)
<1>0. /\ nread \in 0 .. UINT - 1 /\ nwrite \in 0 .. UINT - 1 /\ UINT \in Nat /\ Count \in Nat
      /\ PIPESIZE \in Nat \ {0} /\ PIPESIZE < UINT
  BY PipeAssumption, CountIs DEF TypeOK
<1>1. nwrite' = IF nwrite + 1 < UINT THEN nwrite + 1 ELSE nwrite + 1 - UINT
  BY <1>0, Uint, Wraps, Zenon
<1>2. Count' = Count + 1
  BY <1>0, <1>1, CountIs, CountIsNext
<1>3. (nread + Count) % PIPESIZE = nwrite % PIPESIZE
  <2>1. nread + Count = nwrite \/ nread + Count = nwrite + UINT
    BY <1>0, CountIs
  <2>2. nwrite \in Int
    BY <1>0
  <2>3. (nwrite + UINT) % PIPESIZE = nwrite % PIPESIZE
    BY <2>2, SameByte, Zenon
  <2> QED
    BY <2>1, <2>3, Zenon
<1>4. ASSUME NEW i \in 1 .. Count
      PROVE  (nread + i - 1) % PIPESIZE # nwrite % PIPESIZE
  <2>1. PICK a \in Int, d \in 1 .. PIPESIZE - 1 : a = nread + i - 1 /\ a + d = nread + Count
    <3>1. /\ nread + i - 1 \in Int /\ Count - i + 1 \in 1 .. PIPESIZE - 1
          /\ (nread + i - 1) + (Count - i + 1) = nread + Count
      BY <1>0
    <3> QED
      BY <3>1, Zenon
  <2>2. (a + d) % PIPESIZE # a % PIPESIZE
    BY <1>0, ResidueDiffers, Zenon
  <2> QED
    BY <1>3, <2>1, <2>2, Zenon
<1>5. data \in [0 .. PIPESIZE - 1 -> Byte] /\ nwrite % PIPESIZE \in 0 .. PIPESIZE - 1
  BY <1>0, ModType DEF TypeOK
<1>6. ASSUME NEW i \in 1 .. Count + 1
      PROVE  Queue'[i] = IF i = Count + 1 THEN ch ELSE Queue[i]
  <2>1. Queue'[i] = data'[(nread + i - 1) % PIPESIZE]
    BY <1>2, Zenon DEF Queue
  <2>2. CASE i = Count + 1
    <3>1. nread + i - 1 = nread + Count
      BY <1>0, <2>2
    <3> QED
      BY <1>3, <1>5, <2>1, <2>2, <3>1, Zenon
  <2>3. CASE i # Count + 1
    <3>1. i \in 1 .. Count
      BY <1>0, <2>3
    <3>2. (nread + i - 1) % PIPESIZE \in 0 .. PIPESIZE - 1
      <4>1. nread + i - 1 \in Int
        BY <1>0, <3>1
      <4>2. PICK a \in Int : a = nread + i - 1
        BY <4>1, Zenon
      <4>3. a % PIPESIZE \in 0 .. PIPESIZE - 1
        BY <1>0, Division, Zenon
      <4> QED
        BY <4>2, <4>3, Zenon
    <3>3. data'[(nread + i - 1) % PIPESIZE] = data[(nread + i - 1) % PIPESIZE]
      BY <1>4, <1>5, <3>1, <3>2, Zenon
    <3>4. Queue[i] = data[(nread + i - 1) % PIPESIZE]
      BY <3>1, Zenon DEF Queue
    <3> QED
      BY <2>1, <2>3, <3>3, <3>4, Zenon
  <2> QED
    BY <2>2, <2>3, Zenon
<1>7. Queue \in Seq(Byte) /\ Len(Queue) = Count
  BY QueueType, Zenon
<1>8. Queue' = [i \in 1 .. Count + 1 |-> Queue'[i]]
  BY <1>2 DEF Queue
<1>9. Append(Queue, ch) = [i \in 1 .. Count + 1 |-> IF i = Count + 1 THEN ch ELSE Queue[i]]
  BY <1>0, <1>7, AppendIs
<1> QED
  BY <1>2, <1>6, <1>8, <1>9, Zenon

\* The byte a reader takes was the first.
LEMMA GetByte ==
  ASSUME TypeOK, TypeOK', ~Empty, nread' = (nread + 1) % UINT, UNCHANGED <<data, nwrite>>
  PROVE  Count > 0 /\ Count' = Count - 1 /\ Queue' = Tail(Queue)
<1>0. /\ nread \in 0 .. UINT - 1 /\ nwrite \in 0 .. UINT - 1 /\ UINT \in Nat /\ Count \in Nat
      /\ PIPESIZE \in Nat \ {0} /\ PIPESIZE < UINT
  BY PipeAssumption, CountIs DEF TypeOK
<1>1. nread' = IF nread + 1 < UINT THEN nread + 1 ELSE nread + 1 - UINT
  BY <1>0, Uint, Wraps, Zenon
<1>2. Count > 0 /\ Count' = Count - 1
  BY <1>0, <1>1, CountIs, CountIsNext DEF Empty
<1>3. ASSUME NEW i \in 1 .. Count - 1 PROVE Queue'[i] = Queue[i + 1]
  <2>1. Queue'[i] = data[(nread' + i - 1) % PIPESIZE]
    BY <1>2, Zenon DEF Queue
  <2>2. i + 1 \in 1 .. Count
    BY <1>0
  <2>3. Queue[i + 1] = data[(nread + (i + 1) - 1) % PIPESIZE]
    BY <2>2, Zenon DEF Queue
  <2>4. (nread' + i - 1) % PIPESIZE = (nread + (i + 1) - 1) % PIPESIZE
    <3>1. PICK a \in Int, b \in Int : a = nread' + i - 1 /\ b = nread + (i + 1) - 1
      BY <1>0, <1>1
    <3>2. b = a \/ b = a + UINT
      BY <1>0, <1>1, <3>1
    <3> QED
      BY <3>1, <3>2, SameByte, Zenon
  <2> QED
    BY <2>1, <2>3, <2>4, Zenon
<1>4. Queue \in Seq(Byte) /\ Len(Queue) = Count
  BY QueueType, Zenon
<1>5. Queue' = [i \in 1 .. Count - 1 |-> Queue'[i]]
  BY <1>2, Zenon DEF Queue
<1>6. Tail(Queue) = [i \in 1 .. Count - 1 |-> Queue[i + 1]]
  BY <1>0, <1>2, <1>4, TailIs, Zenon
<1> QED
  BY <1>2, <1>3, <1>5, <1>6, Zenon

-----------------------------------------------------------------------------
(* The pipe implements Fifo                                                *)

\* The buffer never holds more than it has room for.
CountInv == Count <= PIPESIZE

\* All steps but the copying of a byte and the closing of an end
LEMMA QueueSame ==
  ASSUME CountInv, UNCHANGED <<data, nread, nwrite, readopen, writeopen>>
  PROVE  CountInv' /\ UNCHANGED Abstract!vars
  BY Zenon DEF CountInv, Count, Queue, Abstract!vars

LEMMA WriteRefines ==
  ASSUME IInv, IInv', CountInv, NEW p \in Proc, write_byte(p)
  PROVE  CountInv' /\ Abstract!Next
<1>1. TypeOK /\ TypeOK' /\ readopen /\ writeopen
  BY Zenon DEF IInv, LockInv, RefsInv, InWrite, write_byte
<1>2. PICK ch \in Byte : data' = [data EXCEPT ![nwrite % PIPESIZE] = ch]
  BY Zenon DEF write_byte
<1>3. Count < PIPESIZE
  BY <1>1, FullIs, CountIs, PipeAssumption DEF write_byte, CountInv
<1>4. Count' = Count + 1 /\ Queue' = Append(Queue, ch) /\ Len(Queue) = Count /\ Count \in Nat
  BY <1>1, <1>2, <1>3, PutByte, QueueType, Zenon DEF write_byte
<1>5. CountInv'
  BY <1>3, <1>4, PipeAssumption DEF CountInv
<1>6. Abstract!Put(ch)
  BY <1>1, <1>3, <1>4, Zenon DEF Abstract!Put, write_byte
<1> QED
  BY <1>5, <1>6, Zenon DEF Abstract!Next

LEMMA ReadRefines ==
  ASSUME IInv, IInv', CountInv, NEW p \in Proc, read_byte(p) \/ read_fault(p)
  PROVE  CountInv' /\ Abstract!Next
<1>1. TypeOK /\ TypeOK' /\ readopen /\ ~Empty /\ nread' = (nread + 1) % UINT
      /\ UNCHANGED <<data, nwrite, readopen, writeopen>>
  BY Zenon DEF IInv, RefsInv, Reading, read_byte, read_fault
<1>2. Count > 0 /\ Count' = Count - 1 /\ Queue' = Tail(Queue) /\ Len(Queue) = Count /\ Count \in Nat
  BY <1>1, GetByte, QueueType, Zenon
<1>3. CountInv'
  BY <1>2, PipeAssumption DEF CountInv
<1>4. Abstract!Get
  BY <1>1, <1>2 DEF Abstract!Get
<1> QED
  BY <1>3, <1>4, Zenon DEF Abstract!Next

LEMMA CloseRefines ==
  ASSUME IInv, CountInv, NEW p \in Proc, pipeclose_read(p) \/ pipeclose_write(p)
  PROVE  CountInv' /\ Abstract!Next
<1>1. CountInv' /\ Queue' = Queue
  BY Zenon DEF pipeclose_read, pipeclose_write, CountInv, Count, Queue
<1>2. CASE pipeclose_read(p)
  BY <1>1, <1>2, Zenon DEF pipeclose_read, IInv, RefsInv, Abstract!Next, Abstract!CloseRead
<1>3. CASE pipeclose_write(p)
  BY <1>1, <1>3, Zenon DEF pipeclose_write, IInv, RefsInv, Abstract!Next, Abstract!CloseWrite
<1> QED
  BY <1>1, <1>2, <1>3, Zenon

LEMMA StepRefines ==
  ASSUME IInv, IInv', CountInv, [Next]_vars
  PROVE  CountInv' /\ [Abstract!Next]_(Abstract!vars)
<1>1. CASE UNCHANGED vars
  BY <1>1, QueueSame, Zenon DEF vars, pipe
<1>2. CASE Next
  <2>1. PICK p \in Proc : \/ write_start(p) \/ pipewrite(p) \/ read_start(p) \/ piperead(p)
                          \/ close(p) \/ kill(p)
    BY <1>2, Zenon DEF Next
  <2>2. CASE write_byte(p)
    BY <2>2, WriteRefines, Zenon
  <2>3. CASE read_byte(p) \/ read_fault(p)
    BY <2>3, ReadRefines, Zenon
  <2>4. CASE pipeclose_read(p) \/ pipeclose_write(p)
    BY <2>4, CloseRefines, Zenon
  <2>5. CASE write_start(p) \/ (pipewrite(p) /\ ~write_byte(p))
    BY <2>5, QueueSame, Zenon DEF write_start, pipewrite, write_awake, write_fail, write_test,
           write_full, write_end, pipe
  <2>6. CASE read_start(p) \/ (piperead(p) /\ ~read_byte(p) /\ ~read_fault(p))
    BY <2>6, QueueSame, Zenon DEF read_start, piperead, read_awake, read_killed, read_test,
           read_sleep, read_ready, read_end, pipe
  <2>7. CASE fileclose_read(p) \/ fileclose_write(p) \/ kill(p)
    BY <2>7, QueueSame, Zenon DEF fileclose_read, fileclose_write, kill, pipe
  <2> QED
    BY <2>1, <2>2, <2>3, <2>4, <2>5, <2>6, <2>7, Zenon DEF close
<1> QED
  BY <1>1, <1>2, Zenon

LEMMA InitRefines == Init => CountInv /\ Abstract!Init
<1> SUFFICES ASSUME Init PROVE CountInv /\ Abstract!Init
  BY Zenon
<1>1. TypeOK /\ nwrite = 0 /\ nread = 0
  BY InitInv, Zenon DEF IInv, Init
<1>2. Count = 0
  BY <1>1, CountIs
<1>3. Queue = << >>
  BY <1>2 DEF Queue
<1> QED
  BY <1>2, <1>3, PipeAssumption DEF CountInv, Abstract!Init, Init

\* The circular buffer, whose indices wrap and whose counters overflow, is a FIFO
\* queue of at most PIPESIZE bytes, whatever the size and the counters' width.
THEOREM Refinement == Spec => ImplementsFifo
<1>1. IInv /\ IInv' /\ CountInv /\ [Next]_vars => CountInv' /\ [Abstract!Next]_(Abstract!vars)
  BY StepRefines, Zenon
<1> QED
  BY <1>1, InitRefines, PipeInvariant, PTL DEF Spec, ImplementsFifo, Abstract!Spec
=============================================================================
