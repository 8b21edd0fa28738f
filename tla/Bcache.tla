------------------------------- MODULE Bcache ------------------------------
(***************************************************************************)
(* The buffer cache, kernel/bio.c, and the sleep-lock of each buffer,      *)
(* kernel/sleeplock.c.  What happens under bcache.lock, or under the       *)
(* spinlock inside a sleep-lock, is one step.                              *)
(*                                                                         *)
(* The callers keep the contract of bio.c: bread; modify; then bwrite, or  *)
(* bpin by the log, which writes the block and unpins it later; brelse.    *)
(* Some hold two buffers at a time (write_log() and install_trans() in     *)
(* log.c, bmap() and itrunc() while balloc() and bfree() have the bitmap): *)
(* such a process is two users, of a buffer each.                          *)
(***************************************************************************)
EXTENDS Integers, Sequences, FiniteSets, Functions

CONSTANTS User,         \* processes, with as many buffers as each holds at a time
          Block, Val, Buf,
          MAXPIN,       \* how many blocks the log keeps pinned at most
          None          \* no process, no block, no buffer

ASSUME BcacheAssumption ==
  /\ IsFiniteSet(Buf) /\ Buf # {} /\ MAXPIN \in Nat
  /\ None \notin User \cup Block \cup Buf

VARIABLES
  disk,                          \* the disk's blocks
  list,                          \* bcache.head's list, most recently used first
  blockno, valid, refcnt, data,  \* struct buf
  locked,                        \* b->lock: who holds it
  pinned,                        \* buffers pinned by the log
  pc, mine,                      \* where each user stands, and its buffer
  want,                          \* the block it asked for
  panicked

bufs == <<blockno, valid, refcnt, data>>
vars == <<disk, list, bufs, locked, pinned, pc, mine, want, panicked>>

PC == {"idle", "acquiresleep", "asleep", "bread", "held", "dirty", "brelse"}

On(p, l) == panicked = "no" /\ pc[p] = l
Goto(p, l) == pc' = [pc EXCEPT ![p] = l]

-----------------------------------------------------------------------------
(* bread()                                                                 *)

\* bget(): the block is cached.
bget_hit(p, k) ==
  /\ On(p, "idle")
  /\ \E b \in Buf :
       /\ blockno[b] = k
       /\ refcnt' = [refcnt EXCEPT ![b] = @ + 1]
       /\ mine' = [mine EXCEPT ![p] = b]
  /\ want' = [want EXCEPT ![p] = k]
  /\ Goto(p, "acquiresleep")
  /\ UNCHANGED <<disk, list, blockno, valid, data, locked, pinned, panicked>>

MutantBgetRace(p, k) ==             \* bcache.lock dropped between the two loops
  LET Unused == {i \in 1 .. Len(list) : refcnt[list[i]] = 0} IN
  /\ On(p, "idle")
  /\ \E i \in Unused : LET b == list[i] IN
       /\ \A j \in Unused : j <= i
       /\ blockno' = [blockno EXCEPT ![b] = k]
       /\ valid' = [valid EXCEPT ![b] = FALSE]
       /\ refcnt' = [refcnt EXCEPT ![b] = 1]
       /\ mine' = [mine EXCEPT ![p] = b]
  /\ want' = [want EXCEPT ![p] = k]
  /\ Goto(p, "acquiresleep")
  /\ UNCHANGED <<disk, list, data, locked, pinned, panicked>>

\* bget(): it is not; recycle the least recently used buffer without users.
bget_miss(p, k) ==
  LET Unused == {i \in 1 .. Len(list) : refcnt[list[i]] = 0} IN
  /\ On(p, "idle") /\ \A b \in Buf : blockno[b] # k
  /\ panicked' = IF Unused = {} THEN "bget" ELSE "no"
  /\ \/ Unused = {} /\ UNCHANGED <<bufs, pc, mine, want>>
     \/ \E i \in Unused : LET b == list[i] IN
       /\ \A j \in Unused : j <= i
       /\ blockno' = [blockno EXCEPT ![b] = k]
       /\ valid' = [valid EXCEPT ![b] = FALSE]
       /\ refcnt' = [refcnt EXCEPT ![b] = 1]
       /\ mine' = [mine EXCEPT ![p] = b]
       /\ want' = [want EXCEPT ![p] = k]
       /\ Goto(p, "acquiresleep")
       /\ UNCHANGED data
  /\ UNCHANGED <<disk, list, locked, pinned>>

acquiresleep(p) ==
  /\ On(p, "acquiresleep") /\ locked[mine[p]] = None
  /\ locked' = [locked EXCEPT ![mine[p]] = p]
  /\ Goto(p, "bread")
  /\ UNCHANGED <<disk, list, bufs, pinned, mine, want, panicked>>

acquiresleep_sleeps(p) ==
  /\ On(p, "acquiresleep") /\ locked[mine[p]] # None
  /\ Goto(p, "asleep")
  /\ UNCHANGED <<disk, list, bufs, locked, pinned, mine, want, panicked>>

MutantBread(p) ==                   \* reads the disk although the buffer is valid
  LET b == mine[p] IN
  /\ On(p, "bread")
  /\ data' = [data EXCEPT ![b] = disk[blockno[b]]]
  /\ valid' = [valid EXCEPT ![b] = TRUE]
  /\ Goto(p, "held")
  /\ UNCHANGED <<disk, list, blockno, refcnt, locked, pinned, mine, want, panicked>>

\* virtio_disk_rw(b, 0) unless the buffer is valid
bread(p) ==
  LET b == mine[p] IN
  /\ On(p, "bread")
  /\ data' = [data EXCEPT ![b] = IF valid[b] THEN @ ELSE disk[blockno[b]]]
  /\ valid' = [valid EXCEPT ![b] = TRUE]
  /\ Goto(p, "held")
  /\ UNCHANGED <<disk, list, blockno, refcnt, locked, pinned, mine, want, panicked>>

-----------------------------------------------------------------------------
(* What callers do with a locked buffer                                    *)

modify(p) ==
  /\ On(p, "held")
  /\ \E v \in Val : data' = [data EXCEPT ![mine[p]] = v]
  /\ Goto(p, "dirty")
  /\ UNCHANGED <<disk, list, blockno, valid, refcnt, locked, pinned, mine, want, panicked>>

bwrite(p) ==
  LET b == mine[p] IN
  /\ On(p, "dirty") /\ b \notin pinned
  /\ panicked' = IF locked[b] = p THEN "no" ELSE "bwrite"
  /\ disk' = [disk EXCEPT ![blockno[b]] = data[b]]
  /\ Goto(p, "held")
  /\ UNCHANGED <<list, bufs, locked, pinned, mine, want>>

\* log_write() pins the first time and absorbs afterwards.
bpin(p) ==
  LET b == mine[p] IN
  /\ On(p, "dirty")
  /\ Cardinality(pinned \cup {b}) <= MAXPIN
  /\ refcnt' = [refcnt EXCEPT ![b] = IF b \in pinned THEN @ ELSE @ + 1]
  /\ pinned' = pinned \cup {b}
  /\ Goto(p, "held")
  /\ UNCHANGED <<disk, list, blockno, valid, data, locked, mine, want, panicked>>

\* install_trans(): bwrite(dbuf); bunpin(dbuf)
bunpin(p) ==
  LET b == mine[p] IN
  /\ On(p, "held") /\ b \in pinned
  /\ disk' = [disk EXCEPT ![blockno[b]] = data[b]]
  /\ refcnt' = [refcnt EXCEPT ![b] = @ - 1]
  /\ pinned' = pinned \ {b}
  /\ UNCHANGED <<list, blockno, valid, data, locked, pc, mine, want, panicked>>

-----------------------------------------------------------------------------
(* brelse()                                                                *)

MutantReleasesleep(p) ==            \* no wakeup(lk)
  LET b == mine[p] IN
  /\ On(p, "held")
  /\ panicked' = IF locked[b] = p THEN "no" ELSE "brelse"
  /\ locked' = [locked EXCEPT ![b] = None]
  /\ Goto(p, "brelse")
  /\ UNCHANGED <<disk, list, bufs, pinned, mine, want>>

releasesleep(p) ==
  LET b == mine[p] IN
  /\ On(p, "held")
  /\ panicked' = IF locked[b] = p THEN "no" ELSE "brelse"
  /\ locked' = [locked EXCEPT ![b] = None]
  /\ pc' = [q \in User |-> IF q = p THEN "brelse"
                           ELSE IF pc[q] = "asleep" /\ mine[q] = b THEN "acquiresleep"
                           ELSE pc[q]]
  /\ UNCHANGED <<disk, list, bufs, pinned, mine, want>>

\* The list after entry i has been unlinked and put at the head.
ToFront(s, i) ==
  [j \in 1 .. Len(s) |-> IF j = 1 THEN s[i] ELSE IF j <= i THEN s[j - 1] ELSE s[j]]

\* Under bcache.lock again: a buffer without users becomes the most recent.
brelse(p) ==
  LET b == mine[p] IN
  /\ On(p, "brelse")
  /\ refcnt' = [refcnt EXCEPT ![b] = @ - 1]
  /\ IF refcnt[b] = 1
     THEN \E i \in 1 .. Len(list) : list[i] = b /\ list' = ToFront(list, i)
     ELSE UNCHANGED list
  /\ mine' = [mine EXCEPT ![p] = None]
  /\ want' = [want EXCEPT ![p] = None]
  /\ Goto(p, "idle")
  /\ UNCHANGED <<disk, blockno, valid, data, locked, pinned, panicked>>

-----------------------------------------------------------------------------
\* binit()
Init ==
  /\ disk \in [Block -> Val]
  /\ list \in Injection(1 .. Cardinality(Buf), Buf)
  /\ blockno = [b \in Buf |-> None] /\ valid = [b \in Buf |-> FALSE]
  /\ refcnt = [b \in Buf |-> 0] /\ data \in [Buf -> Val]
  /\ locked = [b \in Buf |-> None] /\ pinned = {}
  /\ pc = [p \in User |-> "idle"] /\ mine = [p \in User |-> None]
  /\ want = [p \in User |-> None] /\ panicked = "no"

Start(p) == \E k \in Block : bget_hit(p, k) \/ bget_miss(p, k)
Caller(p) == modify(p) \/ bwrite(p) \/ bpin(p) \/ bunpin(p)
Finish(p) == bread(p) \/ releasesleep(p) \/ brelse(p)
Step(p) == Start(p) \/ acquiresleep(p) \/ acquiresleep_sleeps(p) \/ Caller(p) \/ Finish(p)

\* panic() does not return.
panic == panicked # "no" /\ UNCHANGED vars

Next == (\E p \in User : Step(p)) \/ panic

Spec == Init /\ [][Next]_vars

-----------------------------------------------------------------------------
TypeOK ==
  /\ disk \in [Block -> Val] /\ Len(list) = Cardinality(Buf) /\ Range(list) = Buf
  /\ blockno \in [Buf -> Block \cup {None}] /\ valid \in [Buf -> BOOLEAN]
  /\ refcnt \in [Buf -> Nat] /\ data \in [Buf -> Val]
  /\ locked \in [Buf -> User \cup {None}] /\ pinned \subseteq Buf
  /\ pc \in [User -> PC] /\ mine \in [User -> Buf \cup {None}]
  /\ want \in [User -> Block \cup {None}]
  /\ panicked \in {"no", "bget", "bwrite", "brelse"}

\* A buffer is not recycled under a process that has found it, whether that
\* process has locked it yet, sleeps for the lock, or has just unlocked it.
StillMine == \A p \in User : mine[p] # None => blockno[mine[p]] = want[p]

\* Two processes that miss the same block at the same time do not get two
\* buffers for it.
OneBufferPerBlock ==
  \A a, b \in Buf : blockno[a] = blockno[b] /\ blockno[a] # None => a = b

\* bget() gives up only when every buffer is somebody's or pinned: no reference
\* is ever left behind.  Whoever writes or releases a buffer has locked it.
PanicHasReason ==
  panicked # "no" =>
    panicked = "bget" /\ \A b \in Buf : b \in pinned \/ \E p \in User : mine[p] = b

\* Types, the identity of buffers, and what bget(), bwrite() and brelse() assert.
CacheInv == TypeOK /\ StillMine /\ OneBufferPerBlock /\ PanicHasReason

\* The block's one value, wherever it is at the moment, and who has locked it.
Value(k) ==
  IF \E b \in Buf : blockno[b] = k /\ valid[b]
  THEN data[CHOOSE b \in Buf : blockno[b] = k /\ valid[b]] ELSE disk[k]
Holder(k) ==
  IF \E b \in Buf : blockno[b] = k /\ locked[b] # None
  THEN locked[CHOOSE b \in Buf : blockno[b] = k /\ locked[b] # None] ELSE None

Opened == {want[p] : p \in {q \in User : pc[q] \in {"held", "dirty"}}}

Abstract == INSTANCE BlockStore WITH val <- [k \in Block |-> Value(k)],
                                     holder <- [k \in Block |-> Holder(k)],
                                     open <- Opened

\* Recycling, late reads, pins and the unlocked moments of bread and brelse do
\* not show: the cache is a store of blocks under exclusive locks.
ImplementsBlockStore == Abstract!Spec

\* releasesleep() misses no sleeper: a process that sleeps for a buffer's lock
\* does so because it is held, though bget() chose the buffer some time before.
SleepersHaveReason == \A p \in User : pc[p] = "asleep" => locked[mine[p]] # None
=============================================================================
