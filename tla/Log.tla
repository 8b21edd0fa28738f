-------------------------------- MODULE Log --------------------------------
(***************************************************************************)
(* kernel/log.c: the write-ahead log under every file-system call, with    *)
(* the part of the buffer cache (kernel/bio.c) and of the disk that it     *)
(* relies on, with crashes at any point and recovery at boot.              *)
(*                                                                         *)
(* A thread that makes a file-system call runs begin_op, any number of     *)
(* bread / modify / log_write / brelse rounds, and end_op.  Threads also   *)
(* read blocks outside a transaction (fileread).  Everything done under    *)
(* log.lock is one step; commit() runs without the lock, one disk block    *)
(* per step.                                                               *)
(***************************************************************************)
EXTENDS Integers, Sequences, FiniteSets

CONSTANTS Proc, Block, Val,
          NoVal,         \* "not in the buffer cache"
          NoBlock,       \* "holds no buffer"
          LOGSIZE,       \* param.h: log blocks begin_op() hands out
          MAXOPBLOCKS,   \* param.h: what begin_op() reserves per call
          NLOG,          \* sb.nlog, log.size: blocks of the log area, header included
          OPMAX          \* distinct blocks one call really logs

ASSUME LogAssumption ==
  /\ IsFiniteSet(Proc)
  /\ NoVal \notin Val
  /\ NoBlock \notin Block
  /\ LOGSIZE \in Nat /\ MAXOPBLOCKS \in Nat \ {0} /\ MAXOPBLOCKS <= LOGSIZE
  /\ OPMAX \in Nat
  /\ NLOG \in Nat \ {0}

VARIABLES
  home,         \* disk: the blocks at their home locations
  dlog,         \* disk: the data blocks of the log area
  dhead,        \* disk: the log header, block numbers of a committed transaction
  buf,          \* cache: contents, or NoVal when the block is not cached
  refcnt,       \* cache: users and pins of a buffer
  lh,           \* log.lh: block numbers logged by the current transaction
  outstanding,  \* log.outstanding
  committing,   \* log.committing
  tail,         \* loop variable of write_log and install_trans
  boot,         \* where forkret()'s fsinit() stands; "up" when it is done
  pc,           \* where each thread stands
  held,         \* the buffer a thread has locked, or NoBlock
  wrote,        \* blocks logged so far by the thread's call
  panicked      \* a panic() message, or "no"

disk == <<home, dlog, dhead>>
cache == <<buf, refcnt>>
log == <<lh, outstanding, committing, tail>>
threads == <<pc, held, wrote>>
vars == <<home, dlog, dhead, buf, refcnt, lh, outstanding, committing, tail,
          boot, pc, held, wrote, panicked>>

Slot == 1 .. NLOG - 1
Image(s) == {s[i] : i \in 1 .. Len(s)}
IsDistinct(s) == \A i, j \in 1 .. Len(s) : s[i] = s[j] => i = j

OpPC == {"op", "clean", "dirty", "logged"}       \* between begin_op and end_op
CommitPC == {"commit", "write_log", "write_head", "install_trans", "clear",
             "end_commit"}                       \* in end_op with do_commit = 1
PC == {"idle", "reading", "begin_op", "sleep"} \cup OpPC \cup CommitPC
Boot == {"read_head", "install_trans", "clear", "up"}
Panic == {"no", "too big a transaction", "log_write outside of trans", "log.committing"}

\* Threads run once recovery is done, until the kernel panics.
Running == boot = "up" /\ panicked = "no"
Goto(p, l) == pc' = [pc EXCEPT ![p] = l]

\* wakeup(&log): every thread asleep in begin_op tests its condition again.
Wakeup(f) == [q \in Proc |-> IF f[q] = "sleep" THEN "begin_op" ELSE f[q]]

-----------------------------------------------------------------------------
(* The buffer cache, as far as the log depends on it.                      *)

Cached(b) == buf[b] # NoVal
Contents(b) == IF Cached(b) THEN buf[b] ELSE home[b]
Unlocked(b) == \A q \in Proc : held[q] # b

\* bread(): wait for the buffer's sleep-lock, read it from disk if need be.
Bread(p, b, l) ==
  /\ Unlocked(b)
  /\ buf' = [buf EXCEPT ![b] = Contents(b)]
  /\ refcnt' = [refcnt EXCEPT ![b] = @ + 1]
  /\ held' = [held EXCEPT ![p] = b]
  /\ Goto(p, l)

brelse(p, l) ==
  /\ refcnt' = [refcnt EXCEPT ![held[p]] = @ - 1]
  /\ held' = [held EXCEPT ![p] = NoBlock]
  /\ Goto(p, l)

\* bget() recycles any buffer that has no user and no pin, whatever it holds.
Evict(b) ==
  /\ Running
  /\ refcnt[b] = 0 /\ Cached(b)
  /\ buf' = [buf EXCEPT ![b] = NoVal]
  /\ UNCHANGED <<disk, refcnt, log, boot, threads, panicked>>

-----------------------------------------------------------------------------
(* Readers outside a transaction, and the body of a file-system call.      *)

StartRead(p) ==
  /\ Running /\ pc[p] = "idle"
  /\ \E b \in Block : Bread(p, b, "reading")
  /\ UNCHANGED <<disk, log, boot, wrote, panicked>>

EndRead(p) ==
  /\ Running /\ pc[p] = "reading"
  /\ brelse(p, "idle")
  /\ UNCHANGED <<disk, buf, log, boot, wrote, panicked>>

OpBread(p) ==
  /\ Running /\ pc[p] = "op"
  /\ \E b \in Block : Bread(p, b, "clean")
  /\ UNCHANGED <<disk, log, boot, wrote, panicked>>

\* The call changes the data of the buffer it has locked, within its budget.
OpModify(p) ==
  /\ Running /\ pc[p] = "clean"
  /\ Cardinality(wrote[p] \cup {held[p]}) <= OPMAX
  /\ \E v \in Val : buf' = [buf EXCEPT ![held[p]] = v]
  /\ Goto(p, "dirty")
  /\ UNCHANGED <<disk, refcnt, log, boot, held, wrote, panicked>>

OpBrelse(p) ==
  /\ Running /\ pc[p] \in {"clean", "logged"}
  /\ brelse(p, "op")
  /\ UNCHANGED <<disk, buf, log, boot, wrote, panicked>>

-----------------------------------------------------------------------------
(* begin_op, log_write, end_op                                             *)

MutantBeginNoRoomForSelf(p) ==      \* reserves for the others only
  /\ Running /\ pc[p] \in {"idle", "begin_op"}
  /\ ~committing /\ Len(lh) + outstanding * MAXOPBLOCKS <= LOGSIZE
  /\ outstanding' = outstanding + 1
  /\ Goto(p, "op")
  /\ UNCHANGED <<disk, cache, lh, committing, tail, boot, held, wrote, panicked>>

begin_op(p) ==
  /\ Running /\ pc[p] \in {"idle", "begin_op"}
  /\ \/ /\ committing \/ Len(lh) + (outstanding + 1) * MAXOPBLOCKS > LOGSIZE
        /\ Goto(p, "sleep")
        /\ UNCHANGED outstanding
     \/ /\ ~committing /\ Len(lh) + (outstanding + 1) * MAXOPBLOCKS <= LOGSIZE
        /\ outstanding' = outstanding + 1
        /\ Goto(p, "op")
  /\ UNCHANGED <<disk, cache, lh, committing, tail, boot, held, wrote, panicked>>

\* The test for room comes first, so a block that is already logged needs room too.
LogPanic ==
  IF Len(lh) >= LOGSIZE \/ Len(lh) >= NLOG - 1 THEN "too big a transaction"
  ELSE IF outstanding < 1 THEN "log_write outside of trans"
  ELSE "no"

log_write(p) ==
  /\ Running /\ pc[p] = "dirty"
  /\ panicked' = LogPanic
  /\ \/ /\ LogPanic # "no"
        /\ UNCHANGED <<refcnt, lh, pc, wrote>>
     \/ /\ LogPanic = "no" /\ held[p] \in Image(lh)        \* log absorption
        /\ wrote' = [wrote EXCEPT ![p] = @ \cup {held[p]}]
        /\ Goto(p, "logged")
        /\ UNCHANGED <<refcnt, lh>>
     \/ /\ LogPanic = "no" /\ held[p] \notin Image(lh)
        /\ lh' = Append(lh, held[p])
        /\ refcnt' = [refcnt EXCEPT ![held[p]] = @ + 1]    \* bpin
        /\ wrote' = [wrote EXCEPT ![p] = @ \cup {held[p]}]
        /\ Goto(p, "logged")
  /\ UNCHANGED <<disk, buf, outstanding, committing, tail, boot, held>>

end_op(p) ==
  /\ Running /\ pc[p] = "op"
  /\ outstanding' = outstanding - 1
  /\ wrote' = [wrote EXCEPT ![p] = {}]
  /\ panicked' = IF committing THEN "log.committing" ELSE "no"
  /\ \/ /\ outstanding = 1
        /\ committing' = TRUE
        /\ Goto(p, "commit")
     \/ /\ outstanding # 1
        /\ pc' = Wakeup([pc EXCEPT ![p] = "idle"])
        /\ UNCHANGED committing
  /\ UNCHANGED <<disk, cache, lh, tail, boot, held>>

-----------------------------------------------------------------------------
(* commit(), run by the thread whose end_op found no other call            *)

MutantCommitSkipsOne(p) ==          \* n > 1 for n > 0
  /\ Running /\ pc[p] = "commit"
  /\ tail' = 1
  /\ Goto(p, IF Len(lh) > 1 THEN "write_log" ELSE "end_commit")
  /\ UNCHANGED <<disk, cache, lh, outstanding, committing, boot, held, wrote, panicked>>

commit(p) ==
  /\ Running /\ pc[p] = "commit"
  /\ tail' = 1
  /\ Goto(p, IF Len(lh) > 0 THEN "write_log" ELSE "end_commit")
  /\ UNCHANGED <<disk, cache, lh, outstanding, committing, boot, held, wrote, panicked>>

\* Copy one cached block to its slot of the log area.
write_log(p) ==
  /\ Running /\ pc[p] = "write_log"
  /\ Unlocked(lh[tail])
  /\ dlog' = [dlog EXCEPT ![tail] = Contents(lh[tail])]
  /\ buf' = [buf EXCEPT ![lh[tail]] = Contents(lh[tail])]
  /\ tail' = IF tail < Len(lh) THEN tail + 1 ELSE 1
  /\ Goto(p, IF tail < Len(lh) THEN "write_log" ELSE "write_head")
  /\ UNCHANGED <<home, dhead, refcnt, lh, outstanding, committing, boot, held,
                 wrote, panicked>>

\* The commit point.
write_head(p) ==
  /\ Running /\ pc[p] = "write_head"
  /\ dhead' = lh
  /\ Goto(p, "install_trans")
  /\ UNCHANGED <<home, dlog, cache, log, boot, held, wrote, panicked>>

\* Copy one block from the log area to its home location, and bunpin() it.
install_trans(p) ==
  /\ Running /\ pc[p] = "install_trans"
  /\ Unlocked(lh[tail])
  /\ buf' = [buf EXCEPT ![lh[tail]] = dlog[tail]]
  /\ home' = [home EXCEPT ![lh[tail]] = dlog[tail]]
  /\ refcnt' = [refcnt EXCEPT ![lh[tail]] = @ - 1]
  /\ tail' = IF tail < Len(lh) THEN tail + 1 ELSE 1
  /\ Goto(p, IF tail < Len(lh) THEN "install_trans" ELSE "clear")
  /\ UNCHANGED <<dlog, dhead, lh, outstanding, committing, boot, held, wrote, panicked>>

\* log.lh.n = 0; write_head()
clear(p) ==
  /\ Running /\ pc[p] = "clear"
  /\ lh' = <<>>
  /\ dhead' = <<>>
  /\ Goto(p, "end_commit")
  /\ UNCHANGED <<home, dlog, cache, outstanding, committing, tail, boot, held,
                 wrote, panicked>>

MutantEndCommitNoWakeup(p) ==
  /\ Running /\ pc[p] = "end_commit"
  /\ committing' = FALSE
  /\ Goto(p, "idle")
  /\ UNCHANGED <<disk, cache, lh, outstanding, tail, boot, held, wrote, panicked>>

end_commit(p) ==
  /\ Running /\ pc[p] = "end_commit"
  /\ committing' = FALSE
  /\ pc' = Wakeup([pc EXCEPT ![p] = "idle"])
  /\ UNCHANGED <<disk, cache, lh, outstanding, tail, boot, held, wrote, panicked>>

-----------------------------------------------------------------------------
(* Crash and recovery                                                      *)

InstallTarget ==
  IF boot = "install_trans" \/ \E p \in Proc : pc[p] = "install_trans"
  THEN {lh[tail]} ELSE {}
LogTarget == IF \E p \in Proc : pc[p] = "write_log" THEN {tail} ELSE {}

\* Memory is lost.  A data block whose write was in progress holds anything;
\* the header, which fits one sector, was written or was not.
Crash ==
  /\ \/ UNCHANGED <<home, dlog>>
     \/ /\ \E b \in InstallTarget, v \in Val : home' = [home EXCEPT ![b] = v]
        /\ UNCHANGED dlog
     \/ /\ \E i \in LogTarget, v \in Val : dlog' = [dlog EXCEPT ![i] = v]
        /\ UNCHANGED home
  /\ UNCHANGED dhead
  /\ buf' = [b \in Block |-> NoVal]
  /\ refcnt' = [b \in Block |-> 0]
  /\ lh' = <<>>
  /\ outstanding' = 0
  /\ committing' = FALSE
  /\ tail' = 1
  /\ boot' = "read_head"
  /\ pc' = [p \in Proc |-> "idle"]
  /\ held' = [p \in Proc |-> NoBlock]
  /\ wrote' = [p \in Proc |-> {}]
  /\ panicked' = "no"

\* initlog(), recover_from_log(): the first thread runs them before any other starts.
read_head ==
  /\ boot = "read_head"
  /\ lh' = dhead
  /\ boot' = IF Len(dhead) > 0 THEN "install_trans" ELSE "clear"
  /\ UNCHANGED <<disk, cache, outstanding, committing, tail, threads, panicked>>

MutantRecoverInstall ==             \* the loop ends after the first block
  /\ boot = "install_trans"
  /\ buf' = [buf EXCEPT ![lh[tail]] = dlog[tail]]
  /\ home' = [home EXCEPT ![lh[tail]] = dlog[tail]]
  /\ boot' = "clear"
  /\ UNCHANGED <<dlog, dhead, refcnt, lh, outstanding, committing, tail, threads, panicked>>

recover_install ==
  /\ boot = "install_trans"
  /\ buf' = [buf EXCEPT ![lh[tail]] = dlog[tail]]
  /\ home' = [home EXCEPT ![lh[tail]] = dlog[tail]]
  /\ tail' = IF tail < Len(lh) THEN tail + 1 ELSE 1
  /\ boot' = IF tail < Len(lh) THEN "install_trans" ELSE "clear"
  /\ UNCHANGED <<dlog, dhead, refcnt, lh, outstanding, committing, threads, panicked>>

recover_clear ==
  /\ boot = "clear"
  /\ lh' = <<>>
  /\ dhead' = <<>>
  /\ boot' = "up"
  /\ UNCHANGED <<home, dlog, cache, outstanding, committing, tail, threads, panicked>>

-----------------------------------------------------------------------------
\* A file system made by mkfs: a cleared log, nothing cached, boot in progress.
Init ==
  /\ home \in [Block -> Val]
  /\ dlog \in [Slot -> Val]
  /\ dhead = <<>>
  /\ buf = [b \in Block |-> NoVal]
  /\ refcnt = [b \in Block |-> 0]
  /\ lh = <<>>
  /\ outstanding = 0
  /\ committing = FALSE
  /\ tail = 1
  /\ boot = "read_head"
  /\ pc = [p \in Proc |-> "idle"]
  /\ held = [p \in Proc |-> NoBlock]
  /\ wrote = [p \in Proc |-> {}]
  /\ panicked = "no"

OpStep(p) == OpBread(p) \/ OpModify(p) \/ OpBrelse(p) \/ log_write(p)
CommitStep(p) ==
  \/ commit(p) \/ write_log(p) \/ write_head(p)
  \/ install_trans(p) \/ clear(p) \/ end_commit(p)
Recover == read_head \/ recover_install \/ recover_clear

Next ==
  \/ \E p \in Proc :
       \/ StartRead(p) \/ EndRead(p)
       \/ begin_op(p) \/ OpStep(p) \/ end_op(p) \/ CommitStep(p)
  \/ \E b \in Block : Evict(b)
  \/ Crash
  \/ Recover

Spec == Init /\ [][Next]_vars

-----------------------------------------------------------------------------
\* The state of the log that each variable ranges over.
TypeOK ==
  /\ home \in [Block -> Val]
  /\ dlog \in [Slot -> Val]
  /\ dhead \in Seq(Block) /\ Len(dhead) < NLOG
  /\ buf \in [Block -> Val \cup {NoVal}]
  /\ refcnt \in [Block -> Nat]
  /\ lh \in Seq(Block) /\ Len(lh) < NLOG
  /\ outstanding \in Nat
  /\ committing \in BOOLEAN
  /\ tail \in Nat \ {0}
  /\ boot \in Boot
  /\ pc \in [Proc -> PC]
  /\ held \in [Proc -> Block \cup {NoBlock}]
  /\ wrote \in [Proc -> SUBSET Block]
  /\ panicked \in Panic

\* Calls that stay within their budget never make log_write or end_op panic.
NoPanic == panicked = "no"

\* Home blocks hm with the blocks that header hd names taken from the log dl.
Overlay(hd, dl, hm) ==
  [b \in Block |->
     IF b \in Image(hd) THEN dl[CHOOSE i \in 1 .. Len(hd) : hd[i] = b] ELSE hm[b]]

\* The disk as recovery would leave it.
Durable == Overlay(dhead, dlog, home)

\* What bread() returns; before recovery is done, what it will find.
View == IF boot = "up" THEN [b \in Block |-> Contents(b)] ELSE Durable

Active == {p \in Proc : pc[p] \in OpPC}

Abstract == INSTANCE TxnDisk
              WITH durable <- Durable, view <- View, active <- Active

\* Every call is atomic and every commit all-or-nothing across crashes, torn
\* block writes, evictions and repeated recoveries: log.c implements TxnDisk.
ImplementsTxnDisk == Abstract!Spec

\* When the end_op that commits returns, everything the finished calls wrote
\* is durable and the log is empty again.
DurableOnReturn ==
  [][\A p \in Proc : end_commit(p) => Durable = View /\ lh = <<>>]_vars

\* Slot i of the transaction has been copied to its home location.
Installed(i) ==
  \E p \in Proc : pc[p] = "clear" \/ (pc[p] = "install_trans" /\ i < tail)

\* Blocks that log_write has pinned and install_trans has not unpinned yet.
Pinned == {lh[i] : i \in {j \in 1 .. Len(lh) : ~Installed(j)}}

Locked == {held[p] : p \in Proc} \ {NoBlock}
Dirty == {held[p] : p \in {q \in Proc : pc[q] = "dirty"}}

\* A logged block stays cached and pinned until it is installed: write_log
\* copies the call's data, never what was on disk.
LoggedStaysCached ==
  boot = "up" => \A b \in Pinned : refcnt[b] > 0 /\ Cached(b)

\* What the calls in progress may still log, one pair for each block.
Allowance == {a \in Active \X (1 .. OPMAX) : a[2] > Cardinality(wrote[a[1]])}

\* What begin_op()'s test buys: while calls are in progress, the blocks logged
\* plus all that these calls may still log leave a slot of the log area free,
\* which log_write() asks for even when the block is logged already; and so
\* neither log_write() nor end_op() ever panics.
SpaceReserved ==
  /\ NoPanic
  /\ Active # {} => Len(lh) + Cardinality(Allowance) < NLOG - 1

-----------------------------------------------------------------------------
(* The inductive invariant.                                                *)

\* While the machine boots no thread has started.
BootInv ==
  boot # "up" =>
    /\ pc = [p \in Proc |-> "idle"]
    /\ held = [p \in Proc |-> NoBlock]
    /\ refcnt = [b \in Block |-> 0]
    /\ outstanding = 0 /\ ~committing
    /\ \A b \in Block : Cached(b) => buf[b] = home[b]
    /\ boot = "read_head" => lh = <<>> /\ tail = 1
    /\ boot # "read_head" => lh = dhead
    /\ boot = "install_trans" => tail <= Len(lh)
    /\ \A i \in 1 .. Len(lh) :
         boot = "clear" \/ (boot = "install_trans" /\ i < tail)
           => home[lh[i]] = dlog[i]

\* Buffer locks exclude each other; references are counted exactly.
CacheInv ==
  boot = "up" =>
    /\ \A p \in Proc :
         held[p] # NoBlock <=> pc[p] \in {"reading", "clean", "dirty", "logged"}
    /\ \A p, q \in Proc : held[p] = held[q] /\ held[p] # NoBlock => p = q
    /\ \A b \in Block :
         refcnt[b] = (IF b \in Pinned THEN 1 ELSE 0) + (IF b \in Locked THEN 1 ELSE 0)
    /\ \A b \in Pinned \cup Locked : Cached(b)
    /\ \A b \in Block :
         Cached(b) /\ b \notin Pinned \cup Dirty => buf[b] = home[b]

\* Calls in progress and a commit exclude each other; at most one commit runs.
CommitInv ==
  boot = "up" =>
    /\ outstanding = Cardinality(Active)
    /\ committing <=> \E p \in Proc : pc[p] \in CommitPC
    /\ committing => Active = {}
    /\ \A p, q \in Proc : pc[p] \in CommitPC /\ pc[q] \in CommitPC => p = q

\* What each phase of commit() has achieved.
PhaseInv ==
  boot = "up" =>
    /\ (\A p \in Proc : pc[p] \notin {"install_trans", "clear"}) => dhead = <<>>
    /\ \A p \in Proc :
         /\ pc[p] = "write_log" =>
              /\ tail <= Len(lh)
              /\ \A i \in 1 .. tail - 1 : dlog[i] = buf[lh[i]]
         /\ pc[p] = "write_head" =>
              /\ tail = 1 /\ Len(lh) > 0
              /\ \A i \in 1 .. Len(lh) : dlog[i] = buf[lh[i]]
         /\ pc[p] = "install_trans" =>
              /\ dhead = lh /\ tail <= Len(lh)
              /\ \A i \in 1 .. Len(lh) : dlog[i] = IF i < tail THEN home[lh[i]]
                                                  ELSE buf[lh[i]]
         /\ pc[p] = "clear" =>
              /\ dhead = lh
              /\ \A i \in 1 .. Len(lh) : dlog[i] = home[lh[i]]
         /\ pc[p] = "end_commit" => lh = <<>>

IInv ==
  /\ TypeOK
  /\ IsDistinct(lh) /\ IsDistinct(dhead)
  /\ BootInv /\ CacheInv /\ CommitInv /\ PhaseInv

\* No wakeup is lost: whoever sleeps in begin_op() sleeps while a call or a
\* commit is in progress, at whose end end_op() wakes all sleepers.
NoLostWakeup == \A p \in Proc : pc[p] = "sleep" => committing \/ Active # {}

\* Nobody waits for space in a log that nobody uses.
IdleLogEmpty == boot = "up" /\ ~committing /\ Active = {} => lh = <<>>
=============================================================================
