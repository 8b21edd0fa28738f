---------------------------- MODULE BcacheProofs ----------------------------
(* The buffer cache keeps one buffer per block and gives each to one       *)
(* process at a time, for all sets of processes, blocks and buffers.       *)
EXTENDS Bcache, FiniteSetTheorems, TLAPS

\* Where a process holds its buffer's lock, and where it has seen the contents.
Locking == {"bread", "held", "dirty"}
Seeing == {"held", "dirty"}

\* Every buffer is on the list once.
ListInv ==
  /\ list \in Seq(Buf) /\ Len(list) = Cardinality(Buf)
  /\ \A i, j \in 1 .. Len(list) : list[i] = list[j] => i = j
  /\ \A b \in Buf : \E i \in 1 .. Len(list) : list[i] = b

\* A process between bget() and brelse() has a buffer and the block it asked for;
\* it is where the code holds the lock just when it holds it.
ProcInv(p) ==
  /\ pc[p] = "idle" <=> mine[p] = None
  /\ mine[p] = None => want[p] = None
  /\ mine[p] # None => want[p] \in Block /\ blockno[mine[p]] = want[p]
  /\ pc[p] \in Locking => locked[mine[p]] = p
  /\ pc[p] \in Seeing => valid[mine[p]]
  /\ pc[p] = "asleep" => locked[mine[p]] # None

\* refcnt counts the processes that have the buffer, and the log's pin; only a
\* pinned buffer, or one being changed, may differ from the disk.
Users(b) == {p \in User : mine[p] = b}
Pin(b) == IF b \in pinned THEN 1 ELSE 0
RefInv(b) == IsFiniteSet(Users(b)) /\ refcnt[b] = Cardinality(Users(b)) + Pin(b)
BufInv(b) ==
  /\ locked[b] # None => pc[locked[b]] \in Locking /\ mine[locked[b]] = b
  /\ valid[b] => blockno[b] \in Block
  /\ b \in pinned => valid[b]
  /\ valid[b] /\ b \notin pinned /\ data[b] # disk[blockno[b]]
       => \E p \in User : pc[p] = "dirty" /\ mine[p] = b

IInv ==
  /\ TypeOK /\ ListInv /\ OneBufferPerBlock /\ Cardinality(pinned) <= MAXPIN
  /\ \A p \in User : ProcInv(p)
  /\ \A b \in Buf : RefInv(b)
  /\ \A b \in Buf : BufInv(b)

-----------------------------------------------------------------------------
(* The list                                                                *)

\* Moving an entry to the head keeps every buffer on the list once.
LEMMA ToFrontList ==
  ASSUME ListInv, NEW i \in 1 .. Len(list), list' = ToFront(list, i)
  PROVE  ListInv'
<1>1. Len(list) \in Nat /\ \A j \in 1 .. Len(list) : list[j] \in Buf
  BY DEF ListInv
<1>2. \A j \in 1 .. Len(list) :
        list'[j] = IF j = 1 THEN list[i] ELSE IF j <= i THEN list[j - 1] ELSE list[j]
  BY Zenon DEF ToFront
<1>3. list' \in Seq(Buf) /\ Len(list') = Len(list)
  <2>1. list' \in [1 .. Len(list) -> Buf]
    BY <1>1 DEF ToFront
  <2> QED
    BY <1>1, <2>1
<1>4. ASSUME NEW j \in 1 .. Len(list), NEW k \in 1 .. Len(list), list'[j] = list'[k] PROVE j = k
  BY <1>1, <1>2, <1>4 DEF ListInv
<1>5. ASSUME NEW b \in Buf PROVE \E j \in 1 .. Len(list) : list'[j] = b
  <2>1. PICK k \in 1 .. Len(list) : list[k] = b
    BY Zenon DEF ListInv
  <2>2. CASE k = i
    BY <1>1, <1>2, <2>1, <2>2
  <2>3. CASE k < i
    <3>1. k + 1 \in 1 .. Len(list) /\ k + 1 # 1 /\ k + 1 <= i /\ (k + 1) - 1 = k
      BY <1>1, <2>3
    <3> QED
      BY <1>2, <2>1, <3>1, Zenon
  <2>4. CASE k > i
    BY <1>1, <1>2, <2>1, <2>4
  <2> QED
    BY <1>1, <2>2, <2>3, <2>4
<1> QED
  BY <1>3, <1>4, <1>5, Zenon DEF ListInv

\* binit() puts every buffer on it.
LEMMA InitList == ASSUME Init PROVE ListInv
<1> DEFINE n == Cardinality(Buf)
<1>1. n \in Nat /\ IsFiniteSet(Buf)
  BY BcacheAssumption, FS_CardinalityType, Zenon
<1>2. list \in [1 .. n -> Buf] /\ \A i, j \in 1 .. n : list[i] = list[j] => i = j
  <2>1. list \in Injection(1 .. n, Buf)
    BY Zenon DEF Init
  <2> QED
    BY <2>1, Zenon DEF Injection, IsInjective
<1>3. list \in Seq(Buf) /\ Len(list) = n
  BY <1>1, <1>2
<1>4. \A b \in Buf : \E i \in 1 .. n : list[i] = b
  <2>1. IsFiniteSet(1 .. n) /\ Cardinality(1 .. n) = n
    BY <1>1, FS_Interval
  <2>2. list \in Injection(1 .. n, Buf)
    BY Zenon DEF Init
  <2>3. list \in Surjection(1 .. n, Buf)
    BY <1>1, <2>1, <2>2, FS_Injection, Zenon
  <2> QED
    BY <2>3, Zenon DEF Surjection
<1> QED
  BY <1>2, <1>3, <1>4, Zenon DEF ListInv

-----------------------------------------------------------------------------
(* Who uses a buffer                                                       *)

LEMMA UsersSame == ASSUME mine' = mine, NEW b PROVE Users(b)' = Users(b)
  BY Zenon DEF Users

LEMMA PinSame == ASSUME pinned' = pinned, NEW b PROVE Pin(b)' = Pin(b)
  BY Zenon DEF Pin

LEMMA Counts ==
  ASSUME IInv, NEW b \in Buf
  PROVE  IsFiniteSet(Users(b)) /\ Cardinality(Users(b)) \in Nat /\ Pin(b) \in Nat
  BY FS_CardinalityType, Zenon DEF IInv, RefInv, Pin

\* bget() gives p the buffer b.
LEMMA UsersGrow ==
  ASSUME TypeOK, NEW p \in User, mine[p] = None, NEW b \in Buf, mine' = [mine EXCEPT ![p] = b]
  PROVE  /\ Users(b)' = Users(b) \cup {p} /\ p \notin Users(b)
         /\ \A c \in Buf \ {b} : Users(c)' = Users(c)
  BY BcacheAssumption DEF TypeOK, Users

LEMMA UsersMore ==
  ASSUME IInv, NEW p \in User, mine[p] = None, NEW b \in Buf, mine' = [mine EXCEPT ![p] = b]
  PROVE  /\ IsFiniteSet(Users(b)') /\ Cardinality(Users(b)') = Cardinality(Users(b)) + 1
         /\ \A c \in Buf \ {b} : Users(c)' = Users(c)
<1>1. /\ Users(b)' = Users(b) \cup {p} /\ p \notin Users(b)
      /\ \A c \in Buf \ {b} : Users(c)' = Users(c)
  BY UsersGrow, Zenon DEF IInv
<1>2. IsFiniteSet(Users(b) \cup {p}) /\ Cardinality(Users(b) \cup {p}) = Cardinality(Users(b)) + 1
  BY <1>1, Counts, FS_AddElement, Zenon
<1> QED
  BY <1>1, <1>2, Zenon

\* brelse() takes it away.
LEMMA UsersShrink ==
  ASSUME TypeOK, NEW p \in User, NEW b \in Buf, mine[p] = b, mine' = [mine EXCEPT ![p] = None]
  PROVE  /\ Users(b)' = Users(b) \ {p} /\ p \in Users(b)
         /\ \A c \in Buf \ {b} : Users(c)' = Users(c)
  BY BcacheAssumption, Zenon DEF TypeOK, Users

-----------------------------------------------------------------------------
(* Each step preserves the invariant                                       *)

\* What p may rely on between bget() and brelse().
LEMMA MyBuffer ==
  ASSUME IInv, NEW p \in User, pc[p] # "idle"
  PROVE  mine[p] \in Buf /\ blockno[mine[p]] \in Block /\ want[p] = blockno[mine[p]]
  BY DEF IInv, TypeOK, ProcInv

\* With the lock held, nobody else is where the lock is held.
LEMMA Exclusive ==
  ASSUME IInv, NEW p \in User, NEW q \in User, pc[p] \in Locking, pc[q] \in Locking, mine[p] = mine[q]
  PROVE  p = q
  BY DEF IInv, ProcInv

\* A step that changes no more than panicked.
LEMMA SameInv ==
  ASSUME IInv, panicked' \in {"no", "bget", "bwrite", "brelse"},
         UNCHANGED <<disk, list, blockno, valid, refcnt, data, locked, pinned, pc, mine, want>>
  PROVE  IInv'
<1>1. TypeOK' /\ ListInv' /\ OneBufferPerBlock' /\ Cardinality(pinned') <= MAXPIN
  BY Zenon DEF IInv, TypeOK, ListInv, OneBufferPerBlock
<1>2. \A q \in User : ProcInv(q)'
  BY Zenon DEF IInv, ProcInv
<1>3. \A b \in Buf : RefInv(b)'
  BY UsersSame, PinSame, Zenon DEF IInv, RefInv
<1>4. \A b \in Buf : BufInv(b)'
  BY Zenon DEF IInv, BufInv
<1> QED
  BY <1>1, <1>2, <1>3, <1>4, Zenon DEF IInv

LEMMA AcquireStep == ASSUME IInv, NEW p \in User, acquiresleep(p) PROVE IInv'
<1>0. TypeOK /\ ListInv /\ OneBufferPerBlock
  BY Zenon DEF IInv
<1>1. mine[p] \in Buf /\ blockno[mine[p]] \in Block
  BY MyBuffer, Zenon DEF acquiresleep, On
<1>2. TypeOK'
  BY <1>0, <1>1, Zenon DEF TypeOK, PC, acquiresleep, Goto, bufs
<1>3. ListInv'
  BY <1>0, Zenon DEF ListInv, acquiresleep
<1>4. OneBufferPerBlock'
  BY <1>0, Zenon DEF OneBufferPerBlock, acquiresleep, bufs
<1>5. Cardinality(pinned') <= MAXPIN
  BY Zenon DEF IInv, acquiresleep
<1>6. \A q \in User : ProcInv(q)'
  <2> SUFFICES ASSUME NEW q \in User PROVE ProcInv(q)'
    BY Zenon
  <2>1. CASE q = p
    BY <1>0, <1>1, <2>1, Zenon DEF IInv, TypeOK, ProcInv, acquiresleep, On, Goto, bufs, Seeing
  <2>2. CASE q # p
    BY <1>0, <1>1, <2>2, BcacheAssumption DEF IInv, ProcInv, acquiresleep, Goto, bufs
  <2> QED
    BY <2>1, <2>2, Zenon
<1>7. \A b \in Buf : RefInv(b)'
  BY UsersSame, PinSame, Zenon DEF IInv, RefInv, acquiresleep, bufs
<1>8. \A b \in Buf : BufInv(b)'
  BY <1>0, <1>1 DEF IInv, TypeOK, BufInv, acquiresleep, On, Goto, bufs, Locking
<1> QED
  BY <1>2, <1>3, <1>4, <1>5, <1>6, <1>7, <1>8, Zenon DEF IInv

LEMMA SleepStep == ASSUME IInv, NEW p \in User, acquiresleep_sleeps(p) PROVE IInv'
<1>0. TypeOK /\ ListInv /\ OneBufferPerBlock
  BY Zenon DEF IInv
<1>1. mine[p] \in Buf /\ blockno[mine[p]] \in Block
  BY MyBuffer, Zenon DEF acquiresleep_sleeps, On
<1>2. TypeOK'
  BY <1>0, <1>1, Zenon DEF TypeOK, PC, acquiresleep_sleeps, Goto, bufs
<1>3. ListInv'
  BY <1>0 DEF ListInv, acquiresleep_sleeps
<1>4. OneBufferPerBlock'
  BY <1>0, Zenon DEF OneBufferPerBlock, acquiresleep_sleeps, bufs
<1>5. Cardinality(pinned') <= MAXPIN
  BY Zenon DEF IInv, acquiresleep_sleeps
<1>6. \A q \in User : ProcInv(q)'
  BY <1>0, <1>1 DEF IInv, ProcInv, acquiresleep_sleeps, On, Goto, bufs, Locking, Seeing
<1>7. \A b \in Buf : RefInv(b)'
  BY UsersSame, PinSame, Zenon DEF IInv, RefInv, acquiresleep_sleeps, bufs
<1>8. \A b \in Buf : BufInv(b)'
  BY <1>0, <1>1 DEF IInv, BufInv, acquiresleep_sleeps, On, Goto, bufs, Locking
<1> QED
  BY <1>2, <1>3, <1>4, <1>5, <1>6, <1>7, <1>8, Zenon DEF IInv

LEMMA BreadStep == ASSUME IInv, NEW p \in User, bread(p) PROVE IInv'
<1>0. TypeOK /\ ListInv /\ OneBufferPerBlock
  BY Zenon DEF IInv
<1>1. mine[p] \in Buf /\ blockno[mine[p]] \in Block
  BY MyBuffer, Zenon DEF bread, On
<1>2. TypeOK'
  BY <1>0, <1>1, Zenon DEF TypeOK, PC, bread, Goto
<1>3. ListInv'
  BY <1>0, Zenon DEF ListInv, bread
<1>4. OneBufferPerBlock'
  BY <1>0, Zenon DEF OneBufferPerBlock, bread
<1>5. Cardinality(pinned') <= MAXPIN
  BY Zenon DEF IInv, bread
<1>6. \A q \in User : ProcInv(q)'
  BY <1>0, <1>1 DEF IInv, TypeOK, ProcInv, bread, On, Goto, Locking
<1>7. \A b \in Buf : RefInv(b)'
  BY UsersSame, PinSame, Zenon DEF IInv, RefInv, bread
<1>8. \A b \in Buf : BufInv(b)'
  BY <1>0, <1>1 DEF IInv, TypeOK, BufInv, bread, On, Goto, Locking
<1> QED
  BY <1>2, <1>3, <1>4, <1>5, <1>6, <1>7, <1>8, Zenon DEF IInv

LEMMA ModifyStep == ASSUME IInv, NEW p \in User, modify(p) PROVE IInv'
<1>0. TypeOK /\ ListInv /\ OneBufferPerBlock
  BY Zenon DEF IInv
<1>1. mine[p] \in Buf /\ blockno[mine[p]] \in Block
  BY MyBuffer, Zenon DEF modify, On
<1>2. TypeOK'
  BY <1>0, <1>1 DEF TypeOK, PC, modify, Goto
<1>3. ListInv'
  BY <1>0, Zenon DEF ListInv, modify
<1>4. OneBufferPerBlock'
  BY <1>0, Zenon DEF OneBufferPerBlock, modify
<1>5. Cardinality(pinned') <= MAXPIN
  BY Zenon DEF IInv, modify
<1>6. \A q \in User : ProcInv(q)'
  BY <1>0, <1>1 DEF IInv, ProcInv, modify, On, Goto, Locking, Seeing
<1>7. \A b \in Buf : RefInv(b)'
  BY UsersSame, PinSame, Zenon DEF IInv, RefInv, modify
<1>8. \A b \in Buf : BufInv(b)'
  BY <1>0, <1>1 DEF IInv, TypeOK, BufInv, modify, Goto, Locking
<1> QED
  BY <1>2, <1>3, <1>4, <1>5, <1>6, <1>7, <1>8, Zenon DEF IInv

LEMMA BwriteStep == ASSUME IInv, NEW p \in User, bwrite(p) PROVE IInv'
<1>0. TypeOK /\ ListInv /\ OneBufferPerBlock
  BY Zenon DEF IInv
<1>1. mine[p] \in Buf /\ blockno[mine[p]] \in Block
  BY MyBuffer, Zenon DEF bwrite, On
<1>2. TypeOK'
  BY <1>0, <1>1, Zenon DEF TypeOK, PC, bwrite, Goto, bufs
<1>3. ListInv'
  BY <1>0, Zenon DEF ListInv, bwrite
<1>4. OneBufferPerBlock'
  BY <1>0, Zenon DEF OneBufferPerBlock, bwrite, bufs
<1>5. Cardinality(pinned') <= MAXPIN
  BY Zenon DEF IInv, bwrite
<1>6. \A q \in User : ProcInv(q)'
  BY <1>0, <1>1 DEF IInv, ProcInv, bwrite, On, Goto, bufs, Locking, Seeing
<1>7. \A b \in Buf : RefInv(b)'
  BY UsersSame, PinSame, Zenon DEF IInv, RefInv, bwrite, bufs
<1>8. \A b \in Buf : BufInv(b)'
  <2> SUFFICES ASSUME NEW b \in Buf PROVE BufInv(b)'
    BY Zenon
  <2>1. CASE b = mine[p]
    BY <1>0, <1>1, <2>1 DEF IInv, TypeOK, BufInv, bwrite, Goto, bufs, Locking
  <2>2. CASE b # mine[p]
    <3>1. valid[b] => disk'[blockno[b]] = disk[blockno[b]]
      BY <1>0, <1>1, <2>2, BcacheAssumption DEF OneBufferPerBlock, bwrite
    <3> QED
      BY <1>0, <1>1, <2>2, <3>1 DEF IInv, BufInv, bwrite, Goto, bufs
  <2> QED
    BY <2>1, <2>2, Zenon
<1> QED
  BY <1>2, <1>3, <1>4, <1>5, <1>6, <1>7, <1>8, Zenon DEF IInv

LEMMA BpinStep == ASSUME IInv, NEW p \in User, bpin(p) PROVE IInv'
<1>0. TypeOK /\ ListInv /\ OneBufferPerBlock
  BY Zenon DEF IInv
<1>1. mine[p] \in Buf /\ blockno[mine[p]] \in Block
  BY MyBuffer, Zenon DEF bpin, On
<1>2. TypeOK'
  BY <1>0, <1>1 DEF TypeOK, PC, bpin, Goto
<1>3. ListInv'
  BY <1>0, Zenon DEF ListInv, bpin
<1>4. OneBufferPerBlock'
  BY <1>0, Zenon DEF OneBufferPerBlock, bpin
<1>5. Cardinality(pinned') <= MAXPIN
  BY Zenon DEF bpin
<1>6. \A q \in User : ProcInv(q)'
  BY <1>0, <1>1 DEF IInv, ProcInv, bpin, On, Goto, Locking, Seeing
<1>7. \A b \in Buf : RefInv(b)'
  <2> SUFFICES ASSUME NEW b \in Buf PROVE RefInv(b)'
    BY Zenon
  <2>1. IsFiniteSet(Users(b)) /\ refcnt[b] = Cardinality(Users(b)) + Pin(b) /\ Cardinality(Users(b)) \in Nat
    BY Counts, Zenon DEF IInv, RefInv
  <2>2. Users(b)' = Users(b)
    BY UsersSame, Zenon DEF bpin
  <2>3. refcnt'[b] + Pin(b) = refcnt[b] + Pin(b)'
    BY <1>0, <1>1 DEF TypeOK, bpin, Pin
  <2>4. Pin(b) \in Nat /\ Pin(b)' \in Nat /\ refcnt'[b] \in Nat
    BY <1>2, Zenon DEF Pin, TypeOK
  <2> QED
    BY <2>1, <2>2, <2>3, <2>4 DEF RefInv
<1>8. \A b \in Buf : BufInv(b)'
  BY <1>0, <1>1 DEF IInv, ProcInv, BufInv, bpin, On, Goto, Locking, Seeing
<1> QED
  BY <1>2, <1>3, <1>4, <1>5, <1>6, <1>7, <1>8, Zenon DEF IInv

LEMMA BunpinStep == ASSUME IInv, NEW p \in User, bunpin(p) PROVE IInv'
<1>0. TypeOK /\ ListInv /\ OneBufferPerBlock
  BY Zenon DEF IInv
<1>1. mine[p] \in Buf /\ blockno[mine[p]] \in Block
  BY MyBuffer, Zenon DEF bunpin, On
<1>a. refcnt[mine[p]] - 1 \in Nat
  BY <1>1, Counts DEF IInv, RefInv, bunpin, Pin
<1>2. TypeOK'
  BY <1>0, <1>1, <1>a, Zenon DEF TypeOK, bunpin
<1>3. ListInv'
  BY <1>0, Zenon DEF ListInv, bunpin
<1>4. OneBufferPerBlock'
  BY <1>0, Zenon DEF OneBufferPerBlock, bunpin
<1>5. Cardinality(pinned') <= MAXPIN
  <2>1. IsFiniteSet(pinned) /\ Cardinality(pinned) \in Nat /\ Cardinality(pinned) <= MAXPIN
    BY <1>0, BcacheAssumption, FS_Subset, FS_CardinalityType, Zenon DEF IInv, TypeOK
  <2>2. Cardinality(pinned \ {mine[p]}) <= Cardinality(pinned)
    BY <2>1, FS_Subset, Zenon
  <2>3. Cardinality(pinned \ {mine[p]}) \in Nat /\ pinned' = pinned \ {mine[p]}
    BY <2>1, FS_RemoveElement, FS_CardinalityType, Zenon DEF bunpin
  <2> QED
    BY <2>1, <2>2, <2>3, BcacheAssumption
<1>6. \A q \in User : ProcInv(q)'
  BY <1>0, <1>1, Zenon DEF IInv, ProcInv, bunpin
<1>7. \A b \in Buf : RefInv(b)'
  <2> SUFFICES ASSUME NEW b \in Buf PROVE RefInv(b)'
    BY Zenon
  <2>1. IsFiniteSet(Users(b)) /\ refcnt[b] = Cardinality(Users(b)) + Pin(b) /\ Cardinality(Users(b)) \in Nat
    BY Counts, Zenon DEF IInv, RefInv
  <2>2. Users(b)' = Users(b)
    BY UsersSame, Zenon DEF bunpin
  <2>3. refcnt'[b] + Pin(b) = refcnt[b] + Pin(b)'
    BY <1>0, <1>1 DEF TypeOK, bunpin, Pin
  <2>4. Pin(b) \in Nat /\ Pin(b)' \in Nat /\ refcnt'[b] \in Nat
    BY <1>2, Zenon DEF Pin, TypeOK
  <2> QED
    BY <2>1, <2>2, <2>3, <2>4 DEF RefInv
<1>8. \A b \in Buf : BufInv(b)'
  <2> SUFFICES ASSUME NEW b \in Buf PROVE BufInv(b)'
    BY Zenon
  <2>1. CASE b = mine[p]
    BY <1>0, <1>1, <2>1, Zenon DEF IInv, TypeOK, BufInv, bunpin
  <2>2. CASE b # mine[p]
    <3>1. valid[b] => disk'[blockno[b]] = disk[blockno[b]]
      BY <1>0, <1>1, <2>2, BcacheAssumption DEF OneBufferPerBlock, bunpin
    <3> QED
      BY <1>0, <1>1, <2>2, <3>1, Zenon DEF IInv, BufInv, bunpin
  <2> QED
    BY <2>1, <2>2, Zenon
<1> QED
  BY <1>2, <1>3, <1>4, <1>5, <1>6, <1>7, <1>8, Zenon DEF IInv

LEMMA ReleaseStep == ASSUME IInv, NEW p \in User, releasesleep(p) PROVE IInv'
<1>0. TypeOK /\ ListInv /\ OneBufferPerBlock
  BY Zenon DEF IInv
<1>1. mine[p] \in Buf /\ blockno[mine[p]] \in Block
  BY MyBuffer, Zenon DEF releasesleep, On
<1>2. TypeOK'
  BY <1>0, <1>1, Zenon DEF TypeOK, PC, releasesleep, bufs
<1>3. ListInv'
  BY <1>0, Zenon DEF ListInv, releasesleep
<1>4. OneBufferPerBlock'
  BY <1>0, Zenon DEF OneBufferPerBlock, releasesleep, bufs
<1>5. Cardinality(pinned') <= MAXPIN
  BY Zenon DEF IInv, releasesleep
<1>6. \A q \in User : ProcInv(q)'
  BY <1>0, <1>1 DEF IInv, ProcInv, releasesleep, On, bufs, Locking, Seeing
<1>7. \A b \in Buf : RefInv(b)'
  BY UsersSame, PinSame, Zenon DEF IInv, RefInv, releasesleep, bufs
<1>8. \A b \in Buf : BufInv(b)'
  BY <1>0, <1>1 DEF IInv, TypeOK, BufInv, releasesleep, On, bufs
<1> QED
  BY <1>2, <1>3, <1>4, <1>5, <1>6, <1>7, <1>8, Zenon DEF IInv

LEMMA BrelseStep == ASSUME IInv, NEW p \in User, brelse(p) PROVE IInv'
<1>0. TypeOK /\ ListInv /\ OneBufferPerBlock
  BY Zenon DEF IInv
<1>1. mine[p] \in Buf /\ blockno[mine[p]] \in Block
  BY MyBuffer, Zenon DEF brelse, On
<1>a. /\ \A b \in Buf \ {mine[p]} : Users(b)' = Users(b)
      /\ \A b \in Buf : b = mine[p] => Users(b)' = Users(b) \ {p} /\ p \in Users(b)
  BY <1>0, <1>1, UsersShrink, Zenon DEF brelse
<1>b. Cardinality(Users(mine[p])) \in Nat \ {0} /\ Pin(mine[p]) \in Nat
  BY <1>1, <1>a, Counts, FS_EmptySet, Zenon
<1>c. refcnt[mine[p]] - 1 \in Nat
  BY <1>1, <1>b DEF IInv, RefInv
<1>3. ListInv'
  BY <1>0, ToFrontList, Zenon DEF ListInv, brelse
<1>2. TypeOK'
  <2>1. Len(list') = Cardinality(Buf) /\ Range(list') = Buf
    BY <1>3 DEF ListInv, Range
  <2> QED
    BY <1>0, <1>1, <1>c, <2>1, Zenon DEF TypeOK, PC, brelse, Goto
<1>4. OneBufferPerBlock'
  BY <1>0, Zenon DEF OneBufferPerBlock, brelse
<1>5. Cardinality(pinned') <= MAXPIN
  BY Zenon DEF IInv, brelse
<1>6. \A q \in User : ProcInv(q)'
  BY <1>0, <1>1 DEF IInv, TypeOK, ProcInv, brelse, Goto, Locking, Seeing
<1>7. \A b \in Buf : RefInv(b)'
  <2> SUFFICES ASSUME NEW b \in Buf PROVE RefInv(b)'
    BY Zenon
  <2>1. CASE b = mine[p]
    <3>1. /\ IsFiniteSet(Users(b)) /\ IsFiniteSet(Users(b) \ {p}) /\ Cardinality(Users(b)) \in Nat
          /\ Cardinality(Users(b) \ {p}) = Cardinality(Users(b)) - 1
      BY <1>a, <2>1, Counts, FS_RemoveElement, Zenon
    <3>2. refcnt'[b] = refcnt[b] - 1 /\ Pin(b)' = Pin(b) /\ Pin(b) \in Nat
      BY <1>0, <1>1, <2>1, PinSame, Counts, Zenon DEF brelse, TypeOK
    <3>3. refcnt[b] = Cardinality(Users(b)) + Pin(b) /\ Users(b)' = Users(b) \ {p}
      BY <1>a, <2>1, Zenon DEF IInv, RefInv
    <3> QED
      BY <3>1, <3>2, <3>3 DEF RefInv
  <2>2. CASE b # mine[p]
    BY <1>0, <1>1, <1>a, <2>2, PinSame DEF IInv, RefInv, brelse
  <2> QED
    BY <2>1, <2>2, Zenon
<1>8. \A b \in Buf : BufInv(b)'
  BY <1>0, <1>1 DEF IInv, BufInv, brelse, On, Goto, Locking
<1> QED
  BY <1>2, <1>3, <1>4, <1>5, <1>6, <1>7, <1>8, Zenon DEF IInv

LEMMA HitStep == ASSUME IInv, NEW p \in User, NEW k \in Block, bget_hit(p, k) PROVE IInv'
<1>0. TypeOK /\ ListInv /\ OneBufferPerBlock /\ pc[p] = "idle" /\ mine[p] = None
  BY Zenon DEF IInv, ProcInv, bget_hit, On
<1>1. PICK b \in Buf : /\ blockno[b] = k
                      /\ refcnt' = [refcnt EXCEPT ![b] = @ + 1]
                      /\ mine' = [mine EXCEPT ![p] = b]
  BY Zenon DEF bget_hit
<1>2. TypeOK'
  BY <1>0, <1>1 DEF TypeOK, PC, bget_hit, Goto
<1>3. ListInv' /\ OneBufferPerBlock' /\ Cardinality(pinned') <= MAXPIN
  BY Zenon DEF IInv, ListInv, OneBufferPerBlock, bget_hit
<1>6. \A q \in User : ProcInv(q)'
  BY <1>0, <1>1, BcacheAssumption DEF IInv, TypeOK, ProcInv, bget_hit, Goto, Locking, Seeing
<1>7. \A c \in Buf : RefInv(c)'
  <2> SUFFICES ASSUME NEW c \in Buf PROVE RefInv(c)'
    BY Zenon
  <2>1. Pin(c)' = Pin(c)
    BY PinSame, Zenon DEF bget_hit
  <2>2. refcnt'[c] = IF c = b THEN refcnt[c] + 1 ELSE refcnt[c]
    BY <1>0, <1>1, Zenon DEF TypeOK
  <2>3. RefInv(c) /\ Cardinality(Users(c)) \in Nat /\ Pin(c) \in Nat
    BY Counts, Zenon DEF IInv
  <2>4. CASE c = b
    <3>1. IsFiniteSet(Users(c)') /\ Cardinality(Users(c)') = Cardinality(Users(c)) + 1
      BY <1>0, <1>1, <2>4, UsersMore, Zenon
    <3> QED
      BY <2>1, <2>2, <2>3, <2>4, <3>1 DEF RefInv
  <2>5. CASE c # b
    <3>1. Users(c)' = Users(c)
      BY <1>0, <1>1, <2>5, UsersMore, Zenon
    <3> QED
      BY <2>1, <2>2, <2>3, <2>5, <3>1, Zenon DEF RefInv
  <2> QED
    BY <2>4, <2>5, Zenon
<1>8. \A c \in Buf : BufInv(c)'
  BY <1>0, <1>1, BcacheAssumption DEF IInv, BufInv, bget_hit, Goto
<1> QED
  BY <1>2, <1>3, <1>6, <1>7, <1>8, Zenon DEF IInv

LEMMA MissStep == ASSUME IInv, NEW p \in User, NEW k \in Block, bget_miss(p, k) PROVE IInv'
<1>0. /\ TypeOK /\ ListInv /\ OneBufferPerBlock /\ pc[p] = "idle" /\ mine[p] = None
      /\ \A b \in Buf : blockno[b] # k
  BY Zenon DEF IInv, ProcInv, bget_miss, On
<1>1. CASE \A i \in 1 .. Len(list) : refcnt[list[i]] # 0
  <2>1. UNCHANGED <<disk, list, blockno, valid, refcnt, data, locked, pinned, pc, mine, want>>
    BY <1>1, Zenon DEF bget_miss, bufs
  <2>2. panicked' \in {"no", "bget", "bwrite", "brelse"}
    BY Zenon DEF bget_miss
  <2> QED
    BY <2>1, <2>2, SameInv, Zenon
<1>2. CASE \E i \in 1 .. Len(list) : refcnt[list[i]] = 0
  <2>1. PICK i \in 1 .. Len(list) :
          /\ refcnt[list[i]] = 0
          /\ blockno' = [blockno EXCEPT ![list[i]] = k]
          /\ valid' = [valid EXCEPT ![list[i]] = FALSE]
          /\ refcnt' = [refcnt EXCEPT ![list[i]] = 1]
          /\ mine' = [mine EXCEPT ![p] = list[i]]
          /\ want' = [want EXCEPT ![p] = k]
          /\ Goto(p, "acquiresleep") /\ data' = data
    BY <1>2, Zenon DEF bget_miss
  <2>2. PICK b \in Buf : b = list[i]
    BY <1>0 DEF ListInv
  <2>3. panicked' = "no" /\ UNCHANGED <<disk, list, locked, pinned>>
    BY <1>2, Zenon DEF bget_miss
  <2>4. Users(b) = {} /\ b \notin pinned
    <3>1. Cardinality(Users(b)) + Pin(b) = 0
      BY <2>1, <2>2, Zenon DEF IInv, RefInv
    <3> QED
      BY <3>1, Counts, FS_EmptySet DEF Pin
  <2>5. \A q \in User : mine[q] # b
    BY <2>4, Zenon DEF Users
  <2>6. TypeOK'
    BY <1>0, <2>1, <2>2, <2>3, Zenon DEF TypeOK, PC, Goto
  <2>7. ListInv' /\ Cardinality(pinned') <= MAXPIN
    BY <2>3, Zenon DEF IInv, ListInv
  <2>8. OneBufferPerBlock'
    BY <1>0, <2>1, <2>2 DEF OneBufferPerBlock
  <2>9. \A q \in User : ProcInv(q)'
    BY <1>0, <2>1, <2>2, <2>3, <2>5, BcacheAssumption
       DEF IInv, TypeOK, ProcInv, Goto, Locking, Seeing
  <2>10. \A c \in Buf : RefInv(c)'
    <3> SUFFICES ASSUME NEW c \in Buf PROVE RefInv(c)'
      BY Zenon
    <3>1. Pin(c)' = Pin(c) /\ (c = b => Pin(c) = 0 /\ Cardinality(Users(c)) = 0)
      BY <2>3, <2>4, PinSame, FS_EmptySet, Zenon DEF Pin
    <3>2. refcnt'[c] = IF c = b THEN 1 ELSE refcnt[c]
      BY <1>0, <2>1, <2>2, Zenon DEF TypeOK
    <3>3. RefInv(c)
      BY Zenon DEF IInv
    <3>4. CASE c = b
      <4>1. IsFiniteSet(Users(c)') /\ Cardinality(Users(c)') = Cardinality(Users(c)) + 1
        BY <1>0, <2>1, <2>2, <3>4, UsersMore, Zenon
      <4> QED
        BY <3>1, <3>2, <3>4, <4>1 DEF RefInv
    <3>5. CASE c # b
      <4>1. Users(c)' = Users(c)
        BY <1>0, <2>1, <2>2, <3>5, UsersMore, Zenon
      <4> QED
        BY <3>1, <3>2, <3>3, <3>5, <4>1, Zenon DEF RefInv
    <3> QED
      BY <3>4, <3>5, Zenon
  <2>11. \A c \in Buf : BufInv(c)'
    BY <1>0, <2>1, <2>2, <2>3, <2>4, <2>5, BcacheAssumption DEF IInv, TypeOK, BufInv, Goto
  <2> QED
    BY <2>6, <2>7, <2>8, <2>9, <2>10, <2>11, Zenon DEF IInv
<1> QED
  BY <1>1, <1>2, Zenon
-----------------------------------------------------------------------------
(* The theorems                                                            *)

LEMMA InitInv == ASSUME Init PROVE IInv
<1>1. ListInv
  BY InitList, Zenon
<1>2. TypeOK
  <2>1. Len(list) = Cardinality(Buf) /\ Range(list) = Buf
    BY <1>1 DEF ListInv, Range
  <2> QED
    BY <2>1, Zenon DEF Init, TypeOK, PC
<1>3. OneBufferPerBlock /\ Cardinality(pinned) <= MAXPIN
  BY BcacheAssumption, FS_EmptySet DEF Init, OneBufferPerBlock
<1>4. \A p \in User : ProcInv(p)
  BY Zenon DEF Init, ProcInv, Locking, Seeing
<1>5. \A b \in Buf : RefInv(b)
  <2> SUFFICES ASSUME NEW b \in Buf PROVE RefInv(b)
    BY Zenon
  <2>1. Users(b) = {}
    BY BcacheAssumption, Zenon DEF Init, Users
  <2>2. Pin(b) = 0 /\ refcnt[b] = 0
    BY Zenon DEF Init, Pin
  <2> QED
    BY <2>1, <2>2, FS_EmptySet DEF RefInv
<1>6. \A b \in Buf : BufInv(b)
  BY Zenon DEF Init, BufInv
<1> QED
  BY <1>1, <1>2, <1>3, <1>4, <1>5, <1>6, Zenon DEF IInv

LEMMA StepInv == ASSUME IInv, [Next]_vars PROVE IInv'
<1>1. CASE UNCHANGED vars \/ panic
  BY <1>1, SameInv, Zenon DEF vars, bufs, IInv, TypeOK, panic
<1>2. CASE \E p \in User : Step(p)
  <2>1. PICK p \in User : \/ Start(p) \/ acquiresleep(p) \/ acquiresleep_sleeps(p)
                          \/ Caller(p) \/ Finish(p)
    BY <1>2, Zenon DEF Step
  <2>2. CASE Start(p)
    BY <2>2, HitStep, MissStep, Zenon DEF Start
  <2>3. CASE acquiresleep(p) \/ acquiresleep_sleeps(p)
    BY <2>3, AcquireStep, SleepStep, Zenon
  <2>4. CASE Caller(p)
    BY <2>4, ModifyStep, BwriteStep, BpinStep, BunpinStep, Zenon DEF Caller
  <2>5. CASE Finish(p)
    BY <2>5, BreadStep, ReleaseStep, BrelseStep, Zenon DEF Finish
  <2> QED
    BY <2>1, <2>2, <2>3, <2>4, <2>5, Zenon
<1> QED
  BY <1>1, <1>2, Zenon DEF Next

\* The inductive invariant holds throughout.
THEOREM Invariance == Spec => []IInv
  BY InitInv, StepInv, PTL DEF Spec

\* releasesleep() misses no sleeper.
THEOREM SleepersWoken == Spec => []SleepersHaveReason
<1>1. IInv => SleepersHaveReason
  BY Zenon DEF IInv, ProcInv, SleepersHaveReason
<1> QED
  BY <1>1, Invariance, PTL
-----------------------------------------------------------------------------
(* Room for everybody                                                      *)

\* There are as many buffers as users and pinned blocks.
Roomy == IsFiniteSet(User) /\ Cardinality(User) + MAXPIN <= Cardinality(Buf)

\* A buffer with references is somebody's or pinned.
LEMMA Referenced ==
  ASSUME IInv, NEW b \in Buf, refcnt[b] # 0
  PROVE  b \in pinned \/ \E q \in User : mine[q] = b
<1> SUFFICES ASSUME b \notin pinned PROVE \E q \in User : mine[q] = b
  BY Zenon
<1>1. refcnt[b] = Cardinality(Users(b)) /\ IsFiniteSet(Users(b)) /\ Cardinality(Users(b)) \in Nat
  BY Counts DEF IInv, RefInv, Pin
<1>2. Users(b) # {}
  BY <1>1, FS_EmptySet, Zenon
<1> QED
  BY <1>2, Zenon DEF Users

\* Then bget() finds a buffer to recycle: the user who asks has none, each of the
\* others has one, and the log has the pinned ones.
LEMMA SomeUnused ==
  ASSUME Roomy, IInv, NEW p \in User, mine[p] = None
  PROVE  \E b \in Buf : refcnt[b] = 0
<1> SUFFICES ASSUME \A b \in Buf : refcnt[b] # 0 PROVE FALSE
  BY Zenon
<1> DEFINE Idle == Buf \ pinned
           f == [b \in Idle |-> CHOOSE q \in User : mine[q] = b]
<1>1. \A b \in Idle : \E q \in User : mine[q] = b
  BY Referenced, Zenon
<1>2. \A b \in Idle : f[b] \in User /\ mine[f[b]] = b
  BY <1>1, Zenon
<1>3. f \in Injection(Idle, User \ {p})
  <2>1. \A b \in Idle : f[b] # p
    BY <1>2, BcacheAssumption, Zenon
  <2>2. f \in [Idle -> User \ {p}]
    BY <1>2, <2>1, Zenon
  <2>3. \A a, b \in Idle : f[a] = f[b] => a = b
    BY <1>2, Zenon
  <2> HIDE DEF f
  <2> QED
    BY <2>2, <2>3, Zenon DEF Injection, IsInjective
<1> HIDE DEF f
<1>4. IsFiniteSet(User \ {p}) /\ Cardinality(User \ {p}) = Cardinality(User) - 1
  BY FS_RemoveElement, Zenon DEF Roomy
<1>5. Cardinality(Idle) <= Cardinality(User) - 1
  BY <1>3, <1>4, FS_Injection
<1>6. Cardinality(Idle) = Cardinality(Buf) - Cardinality(pinned)
  <2>1. Buf \cap pinned = pinned
    BY Zenon DEF IInv, TypeOK
  <2> QED
    BY <2>1, BcacheAssumption, FS_Difference, Zenon
<1>7. IsFiniteSet(pinned)
  BY BcacheAssumption, FS_Subset, Zenon DEF IInv, TypeOK
<1>8. /\ Cardinality(User) \in Nat /\ Cardinality(Buf) \in Nat /\ Cardinality(pinned) \in Nat
      /\ Cardinality(pinned) <= MAXPIN /\ Cardinality(User) + MAXPIN <= Cardinality(Buf)
  BY <1>7, BcacheAssumption, FS_CardinalityType, Zenon DEF Roomy, IInv
<1> QED
  BY <1>5, <1>6, <1>8, BcacheAssumption

\* What may make the kernel panic: bget(), and only when nothing is unused.
LEMMA StepCalm ==
  ASSUME IInv, PanicHasReason, [Next]_vars
  PROVE  /\ PanicHasReason'
         /\ Roomy /\ panicked = "no" => panicked' = "no"
<1>1. CASE UNCHANGED vars \/ panic
  BY <1>1, Zenon DEF vars, panic, PanicHasReason
<1>2. ASSUME NEW p \in User, Step(p)
      PROVE  PanicHasReason' /\ (Roomy => panicked' = "no")
  <2>1. ASSUME NEW k \in Block, bget_miss(p, k)
        PROVE  PanicHasReason' /\ (Roomy => panicked' = "no")
    <3>1. CASE \E b \in Buf : refcnt[b] = 0
      <4>1. PICK b \in Buf : refcnt[b] = 0
        BY <3>1, Zenon
      <4>2. PICK i \in 1 .. Len(list) : list[i] = b
        BY Zenon DEF IInv, ListInv
      <4>3. panicked' = "no"
        BY <2>1, <4>1, <4>2, Zenon DEF bget_miss
      <4> QED
        BY <4>3, Zenon DEF PanicHasReason
    <3>2. CASE \A b \in Buf : refcnt[b] # 0
      <4>1. \A i \in 1 .. Len(list) : refcnt[list[i]] # 0
        BY <3>2 DEF IInv, ListInv
      <4>2. panicked' = "bget" /\ UNCHANGED <<mine, pinned>>
        BY <2>1, <4>1, Zenon DEF bget_miss
      <4>3. \A b \in Buf : b \in pinned \/ \E q \in User : mine[q] = b
        BY <3>2, Referenced, Zenon
      <4>4. mine[p] = None
        BY <2>1, Zenon DEF bget_miss, On, IInv, ProcInv
      <4>5. ~Roomy
        BY <3>2, <4>4, SomeUnused, Zenon
      <4> QED
        BY <4>2, <4>3, <4>5, Zenon DEF PanicHasReason
    <3> QED
      BY <3>1, <3>2, Zenon
  <2>2. ASSUME ~(\E k \in Block : bget_miss(p, k)) PROVE panicked' = "no"
    <3>1. CASE \E k \in Block : bget_hit(p, k)
      BY <3>1, Zenon DEF bget_hit, On
    <3>2. CASE bwrite(p) \/ releasesleep(p)
      BY <3>2, Zenon DEF bwrite, releasesleep, On, IInv, ProcInv, Locking
    <3>3. CASE acquiresleep(p) \/ acquiresleep_sleeps(p)
      BY <3>3, Zenon DEF acquiresleep, acquiresleep_sleeps, On
    <3>4. CASE modify(p) \/ bpin(p) \/ bunpin(p) \/ bread(p) \/ brelse(p)
      BY <3>4, Zenon DEF modify, bpin, bunpin, bread, brelse, On
    <3> QED
      BY <1>2, <2>2, <3>1, <3>2, <3>3, <3>4, Zenon DEF Step, Start, Caller, Finish
  <2>3. panicked' = "no" => PanicHasReason'
    BY Zenon DEF PanicHasReason
  <2> QED
    BY <2>1, <2>2, <2>3, Zenon
<1> QED
  BY <1>1, <1>2, Zenon DEF Next, vars, panic

\* The buffer cache is safe: a buffer stays its block's while a process has it,
\* a block never has two buffers, bwrite() and brelse() find the buffer locked,
\* and bget() gives up only when every buffer is in use or pinned.
THEOREM CacheSafe == Spec => []CacheInv
<1>1. Init => PanicHasReason
  BY Zenon DEF Init, PanicHasReason
<1>2. IInv /\ PanicHasReason /\ [Next]_vars => PanicHasReason'
  BY StepCalm, Zenon
<1>3. IInv /\ PanicHasReason => CacheInv
  BY Zenon DEF IInv, ProcInv, CacheInv, StillMine
<1> QED
  BY <1>1, <1>2, <1>3, Invariance, PTL DEF Spec

\* Where there is room for every user and every pinned block, bget() always
\* finds a buffer to recycle.
THEOREM BuffersSuffice == ASSUME Roomy PROVE Spec => [](panicked = "no")
<1>1. Init => PanicHasReason /\ panicked = "no"
  BY Zenon DEF Init, PanicHasReason
<1>2. IInv /\ PanicHasReason /\ panicked = "no" /\ [Next]_vars
        => PanicHasReason' /\ (panicked = "no")'
  BY StepCalm, Zenon
<1> QED
  BY <1>1, <1>2, Invariance, PTL DEF Spec
-----------------------------------------------------------------------------
(* The cache implements BlockStore                                         *)

\* A cached block is what its buffer holds, an uncached one what the disk does.
LEMMA Cached ==
  ASSUME OneBufferPerBlock, NEW k \in Block, NEW b \in Buf, blockno[b] = k
  PROVE  Value(k) = (IF valid[b] THEN data[b] ELSE disk[k]) /\ Holder(k) = locked[b]
<1>1. \A c \in Buf : blockno[c] = k => c = b
  BY BcacheAssumption, Zenon DEF OneBufferPerBlock
<1> QED
  BY <1>1, Zenon DEF Value, Holder

LEMMA CachedNext ==
  ASSUME OneBufferPerBlock', NEW k \in Block, NEW b \in Buf, blockno'[b] = k
  PROVE  Value(k)' = (IF valid'[b] THEN data'[b] ELSE disk'[k]) /\ Holder(k)' = locked'[b]
<1>1. \A c \in Buf : blockno'[c] = k => c = b
  BY BcacheAssumption, Zenon DEF OneBufferPerBlock
<1> QED
  BY <1>1, Zenon DEF Value, Holder

LEMMA Uncached ==
  ASSUME NEW k \in Block, \A b \in Buf : blockno[b] # k
  PROVE  Value(k) = disk[k] /\ Holder(k) = None
  BY Zenon DEF Value, Holder

LEMMA UncachedNext ==
  ASSUME NEW k \in Block, \A b \in Buf : blockno'[b] # k
  PROVE  Value(k)' = disk'[k] /\ Holder(k)' = None
  BY Zenon DEF Value, Holder

\* Moving contents between the disk and a block's own buffer does not show.
LEMMA SameStore ==
  ASSUME IInv, IInv', UNCHANGED <<blockno, locked>>,
         \A b \in Buf : blockno[b] \in Block =>
            (IF valid'[b] THEN data'[b] ELSE disk'[blockno[b]])
              = (IF valid[b] THEN data[b] ELSE disk[blockno[b]]),
         \A k \in Block : (\A b \in Buf : blockno[b] # k) => disk'[k] = disk[k]
  PROVE  \A k \in Block : Value(k)' = Value(k) /\ Holder(k)' = Holder(k)
<1> SUFFICES ASSUME NEW k \in Block PROVE Value(k)' = Value(k) /\ Holder(k)' = Holder(k)
  BY Zenon
<1>1. OneBufferPerBlock /\ OneBufferPerBlock'
  BY Zenon DEF IInv
<1>2. CASE \A b \in Buf : blockno[b] # k
  BY <1>2, Uncached, UncachedNext
<1>3. CASE \E b \in Buf : blockno[b] = k
  <2>1. PICK b \in Buf : blockno[b] = k
    BY <1>3, Zenon
  <2> QED
    BY <1>1, <2>1, Cached, CachedNext
<1> QED
  BY <1>2, <1>3, Zenon

\* What is open after p has moved: nothing else changes places.
LEMMA SameOpened ==
  ASSUME NEW p \in User,
         \A q \in User \ {p} : pc'[q] \in Seeing <=> pc[q] \in Seeing,
         \A q \in User \ {p} : want'[q] = want[q],
         pc'[p] \in Seeing <=> pc[p] \in Seeing, pc[p] \in Seeing => want'[p] = want[p]
  PROVE  Opened' = Opened
  BY Zenon DEF Opened, Seeing

LEMMA AbstractSame ==
  ASSUME \A k \in Block : Value(k)' = Value(k) /\ Holder(k)' = Holder(k), Opened' = Opened
  PROVE  UNCHANGED Abstract!vars
  BY Zenon DEF Abstract!vars

LEMMA AcquireLocks == ASSUME IInv, IInv', NEW p \in User, acquiresleep(p) PROVE Abstract!Next
<1>1. PICK k \in Block : k = want[p] /\ mine[p] \in Buf /\ blockno[mine[p]] = k
  BY MyBuffer, Zenon DEF acquiresleep, On
<1>2. OneBufferPerBlock /\ OneBufferPerBlock' /\ TypeOK
  BY Zenon DEF IInv
<1>3. Opened' = Opened
  <2>1. \A q \in User : pc'[q] \in Seeing <=> pc[q] \in Seeing
    BY <1>2 DEF acquiresleep, On, Goto, Seeing
  <2> QED
    BY <2>1, SameOpened, Zenon DEF acquiresleep
<1>4. \A j \in Block : Value(j)' = Value(j)
  BY Zenon DEF Value, acquiresleep, bufs
<1>5. Holder(k) = None /\ Holder(k)' = p
  BY <1>1, <1>2, Cached, CachedNext DEF acquiresleep, bufs, TypeOK
<1>6. \A j \in Block \ {k} : Holder(j)' = Holder(j)
  <2> SUFFICES ASSUME NEW j \in Block \ {k} PROVE Holder(j)' = Holder(j)
    BY Zenon
  <2>1. CASE \A b \in Buf : blockno[b] # j
    BY <2>1, Uncached, UncachedNext, Zenon DEF acquiresleep, bufs
  <2>2. CASE \E b \in Buf : blockno[b] = j
    <3>1. PICK b \in Buf : blockno[b] = j
      BY <2>2, Zenon
    <3>2. locked'[b] = locked[b] /\ blockno'[b] = j
      BY <1>1, <1>2, <3>1 DEF acquiresleep, bufs
    <3> QED
      BY <1>2, <3>1, <3>2, Cached, CachedNext
  <2> QED
    BY <2>1, <2>2, Zenon
<1>7. Abstract!Lock(p, k)
  <2>1. [j \in Block |-> Holder(j)'] = [[j \in Block |-> Holder(j)] EXCEPT ![k] = p]
    BY <1>1, <1>5, <1>6, Zenon
  <2>2. [j \in Block |-> Value(j)'] = [j \in Block |-> Value(j)]
    BY <1>4, Zenon
  <2> QED
    BY <1>1, <1>3, <1>5, <2>1, <2>2, Zenon DEF Abstract!Lock
<1> QED
  BY <1>1, <1>7, Zenon DEF Abstract!Next

LEMMA BreadOpens == ASSUME IInv, IInv', NEW p \in User, bread(p) PROVE Abstract!Next
<1>1. PICK k \in Block : k = want[p] /\ mine[p] \in Buf /\ blockno[mine[p]] = k /\ locked[mine[p]] = p
  BY MyBuffer, Zenon DEF bread, On, IInv, ProcInv, Locking
<1>2. OneBufferPerBlock /\ TypeOK
  BY Zenon DEF IInv
<1>3. \A j \in Block : Value(j)' = Value(j) /\ Holder(j)' = Holder(j)
  <2>1. \A b \in Buf : blockno[b] \in Block =>
            (IF valid'[b] THEN data'[b] ELSE disk'[blockno[b]])
              = (IF valid[b] THEN data[b] ELSE disk[blockno[b]])
    BY <1>1, <1>2 DEF bread, TypeOK
  <2> QED
    BY <2>1, SameStore, Zenon DEF bread
<1>4. Opened' = Opened \cup {k}
  BY <1>1, <1>2, Zenon DEF Opened, bread, Goto, TypeOK
<1>5. Holder(k) # None
  BY <1>1, <1>2, Cached, BcacheAssumption, Zenon
<1>6. Abstract!Open(k)
  BY <1>1, <1>3, <1>4, <1>5, Zenon DEF Abstract!Open
<1> QED
  BY <1>1, <1>6, Zenon DEF Abstract!Next

LEMMA ModifyUpdates == ASSUME IInv, IInv', NEW p \in User, modify(p) PROVE Abstract!Next
<1>1. PICK k \in Block : k = want[p] /\ mine[p] \in Buf /\ blockno[mine[p]] = k /\ valid[mine[p]]
  BY MyBuffer, Zenon DEF modify, On, IInv, ProcInv, Seeing
<1>2. OneBufferPerBlock /\ OneBufferPerBlock' /\ TypeOK
  BY Zenon DEF IInv
<1>3. Opened' = Opened /\ k \in Opened
  <2>1. \A q \in User : pc'[q] \in Seeing <=> pc[q] \in Seeing
    BY <1>2 DEF modify, On, Goto, Seeing
  <2>2. Opened' = Opened
    BY <2>1, SameOpened, Zenon DEF modify
  <2> QED
    BY <1>1, <2>2, Zenon DEF modify, On, Opened
<1>4. PICK v \in Val : data' = [data EXCEPT ![mine[p]] = v]
  BY Zenon DEF modify
<1>5. Value(k)' = v
  BY <1>1, <1>2, <1>4, CachedNext DEF modify, TypeOK
<1>6. \A j \in Block : Holder(j)' = Holder(j)
  BY Zenon DEF Holder, modify
<1>7. \A j \in Block \ {k} : Value(j)' = Value(j)
  <2> SUFFICES ASSUME NEW j \in Block \ {k} PROVE Value(j)' = Value(j)
    BY Zenon
  <2>1. CASE \A b \in Buf : blockno[b] # j
    BY <2>1, Uncached, UncachedNext, Zenon DEF modify
  <2>2. CASE \E b \in Buf : blockno[b] = j
    <3>1. PICK b \in Buf : blockno[b] = j
      BY <2>2, Zenon
    <3>2. data'[b] = data[b] /\ valid'[b] = valid[b] /\ blockno'[b] = j /\ disk' = disk
      BY <1>1, <1>2, <1>4, <3>1 DEF modify
    <3> QED
      BY <1>2, <3>1, <3>2, Cached, CachedNext
  <2> QED
    BY <2>1, <2>2, Zenon
<1>8. Abstract!Update(k)
  <2>1. [j \in Block |-> Value(j)'] = [[j \in Block |-> Value(j)] EXCEPT ![k] = v]
    BY <1>1, <1>5, <1>7, Zenon
  <2>2. [j \in Block |-> Holder(j)'] = [j \in Block |-> Holder(j)]
    BY <1>6, Zenon
  <2> QED
    BY <1>3, <2>1, <2>2, Zenon DEF Abstract!Update
<1> QED
  BY <1>1, <1>8, Zenon DEF Abstract!Next

LEMMA ReleaseUnlocks == ASSUME IInv, IInv', NEW p \in User, releasesleep(p) PROVE Abstract!Next
<1>1. PICK k \in Block : k = want[p] /\ mine[p] \in Buf /\ blockno[mine[p]] = k /\ pc[p] = "held"
  BY MyBuffer, Zenon DEF releasesleep, On
<1>2. OneBufferPerBlock /\ OneBufferPerBlock' /\ TypeOK
  BY Zenon DEF IInv
<1>3. \A j \in Block : Value(j)' = Value(j)
  BY Zenon DEF Value, releasesleep, bufs
<1>4. Holder(k)' = None
  BY <1>1, <1>2, CachedNext DEF releasesleep, bufs, TypeOK
<1>5. \A j \in Block \ {k} : Holder(j)' = Holder(j)
  <2> SUFFICES ASSUME NEW j \in Block \ {k} PROVE Holder(j)' = Holder(j)
    BY Zenon
  <2>1. CASE \A b \in Buf : blockno[b] # j
    BY <2>1, Uncached, UncachedNext, Zenon DEF releasesleep, bufs
  <2>2. CASE \E b \in Buf : blockno[b] = j
    <3>1. PICK b \in Buf : blockno[b] = j
      BY <2>2, Zenon
    <3>2. locked'[b] = locked[b] /\ blockno'[b] = j
      BY <1>1, <1>2, <3>1 DEF releasesleep, bufs
    <3> QED
      BY <1>2, <3>1, <3>2, Cached, CachedNext
  <2> QED
    BY <2>1, <2>2, Zenon
<1>6. ASSUME NEW q \in User, pc[q] \in Seeing, q # p PROVE want[q] # k
  <2>1. mine[q] \in Buf /\ blockno[mine[q]] = want[q]
    BY <1>6, MyBuffer, Zenon DEF Seeing
  <2>2. mine[q] # mine[p]
    BY <1>1, <1>6, Exclusive, Zenon DEF Seeing, Locking
  <2> QED
    BY <1>1, <1>2, <2>1, <2>2, BcacheAssumption, Zenon DEF OneBufferPerBlock
<1>7. Opened' = Opened \ {k} /\ k \in Opened
  <2>1. \A q \in User : pc'[q] \in Seeing <=> pc[q] \in Seeing /\ q # p
    BY Zenon DEF releasesleep, Seeing
  <2>2. want' = want
    BY Zenon DEF releasesleep
  <2> QED
    BY <1>1, <1>6, <2>1, <2>2 DEF Opened, Seeing
<1>8. Abstract!Unlock(k)
  <2>1. [j \in Block |-> Holder(j)'] = [[j \in Block |-> Holder(j)] EXCEPT ![k] = None]
    BY <1>1, <1>4, <1>5, Zenon
  <2>2. [j \in Block |-> Value(j)'] = [j \in Block |-> Value(j)]
    BY <1>3, Zenon
  <2> QED
    BY <1>7, <2>1, <2>2, Zenon DEF Abstract!Unlock
<1> QED
  BY <1>1, <1>8, Zenon DEF Abstract!Next

\* Writing a buffer back, by the holder or by the log, does not show.
LEMMA WritebackHidden ==
  ASSUME IInv, IInv', NEW p \in User, bwrite(p) \/ bunpin(p) PROVE UNCHANGED Abstract!vars
<1>1. mine[p] \in Buf /\ blockno[mine[p]] \in Block /\ valid[mine[p]]
  BY MyBuffer, Zenon DEF bwrite, bunpin, On, IInv, ProcInv, Seeing
<1>2. OneBufferPerBlock /\ TypeOK
  BY Zenon DEF IInv
<1>3. /\ disk' = [disk EXCEPT ![blockno[mine[p]]] = data[mine[p]]]
      /\ UNCHANGED <<blockno, locked, valid, data, want>>
  BY Zenon DEF bwrite, bunpin, bufs
<1>4. \A b \in Buf : blockno[b] \in Block =>
          (IF valid'[b] THEN data'[b] ELSE disk'[blockno[b]])
            = (IF valid[b] THEN data[b] ELSE disk[blockno[b]])
  BY <1>1, <1>2, <1>3, BcacheAssumption DEF OneBufferPerBlock
<1>5. \A k \in Block : (\A b \in Buf : blockno[b] # k) => disk'[k] = disk[k]
  BY <1>1, <1>2, <1>3
<1>6. \A k \in Block : Value(k)' = Value(k) /\ Holder(k)' = Holder(k)
  BY <1>3, <1>4, <1>5, SameStore, Zenon
<1>7. Opened' = Opened
  <2>1. \A q \in User : pc'[q] \in Seeing <=> pc[q] \in Seeing
    BY <1>2, Zenon DEF TypeOK, bwrite, bunpin, On, Goto, Seeing
  <2> QED
    BY <1>3, <2>1, SameOpened, Zenon
<1> QED
  BY <1>6, <1>7, AbstractSame, Zenon

\* Nor do counting a user or a pin, falling asleep, and moving in the list.
LEMMA CountingHidden ==
  ASSUME IInv, NEW p \in User,
         \/ \E k \in Block : bget_hit(p, k)
         \/ acquiresleep_sleeps(p) \/ bpin(p) \/ brelse(p)
  PROVE  UNCHANGED Abstract!vars
<1>1. TypeOK
  BY Zenon DEF IInv
<1>2. UNCHANGED <<disk, blockno, valid, data, locked>>
  BY Zenon DEF bget_hit, acquiresleep_sleeps, bpin, brelse, bufs
<1>3. \A k \in Block : Value(k)' = Value(k) /\ Holder(k)' = Holder(k)
  BY <1>2, Zenon DEF Value, Holder
<1>4. /\ \A q \in User \ {p} : pc'[q] = pc[q] /\ want'[q] = want[q]
      /\ \/ pc[p] \notin Seeing /\ pc'[p] \notin Seeing
         \/ pc[p] \in Seeing /\ pc'[p] \in Seeing /\ want' = want
  BY <1>1 DEF bget_hit, acquiresleep_sleeps, bpin, brelse, On, Goto, Seeing, TypeOK
<1>5. Opened' = Opened
  BY <1>4, SameOpened, Zenon
<1> QED
  BY <1>3, <1>5, AbstractSame, Zenon

\* Recycling: nobody has the buffer and it does not differ from the disk, so the
\* block it leaves keeps its value, and the block it is given is not read yet.
LEMMA RecycleHidden ==
  ASSUME IInv, IInv', NEW p \in User, NEW k \in Block, bget_miss(p, k)
  PROVE  UNCHANGED Abstract!vars
<1>0. /\ TypeOK /\ ListInv /\ OneBufferPerBlock /\ OneBufferPerBlock' /\ pc[p] = "idle"
      /\ \A b \in Buf : blockno[b] # k
  BY Zenon DEF IInv, bget_miss, On
<1>1. CASE \A i \in 1 .. Len(list) : refcnt[list[i]] # 0
  <2>1. UNCHANGED <<disk, list, blockno, valid, refcnt, data, locked, pinned, pc, mine, want>>
    BY <1>1, Zenon DEF bget_miss, bufs
  <2> QED
    BY <2>1, AbstractSame, Zenon DEF Value, Holder, Opened
<1>2. CASE \E i \in 1 .. Len(list) : refcnt[list[i]] = 0
  <2>1. PICK i \in 1 .. Len(list) :
          /\ refcnt[list[i]] = 0
          /\ blockno' = [blockno EXCEPT ![list[i]] = k]
          /\ valid' = [valid EXCEPT ![list[i]] = FALSE]
          /\ want' = [want EXCEPT ![p] = k]
          /\ Goto(p, "acquiresleep") /\ data' = data
    BY <1>2, Zenon DEF bget_miss
  <2>2. PICK b \in Buf : b = list[i]
    BY <1>0 DEF ListInv
  <2>3. UNCHANGED <<disk, locked>>
    BY Zenon DEF bget_miss
  <2>4. Users(b) = {} /\ b \notin pinned
    <3>1. Cardinality(Users(b)) + Pin(b) = 0
      BY <2>1, <2>2, Zenon DEF IInv, RefInv
    <3> QED
      BY <3>1, Counts, FS_EmptySet DEF Pin
  <2>5. \A q \in User : mine[q] # b
    BY <2>4, ZenonT(30) DEF Users
  <2>6. locked[b] = None /\ (valid[b] => blockno[b] \in Block /\ data[b] = disk[blockno[b]])
    BY <1>0, <2>4, <2>5 DEF IInv, BufInv, TypeOK
  <2>7. ASSUME NEW j \in Block PROVE Value(j)' = Value(j) /\ Holder(j)' = Holder(j)
    <3>1. CASE j = k
      <4>1. blockno'[b] = k /\ ~valid'[b] /\ locked'[b] = None
        BY <1>0, <2>1, <2>2, <2>3, <2>6, Zenon DEF TypeOK
      <4> QED
        BY <1>0, <2>3, <3>1, <4>1, Uncached, CachedNext
    <3>2. CASE j = blockno[b]
      <4>1. \A c \in Buf : blockno'[c] # j
        BY <1>0, <2>1, <2>2, <3>2, BcacheAssumption DEF OneBufferPerBlock, TypeOK
      <4> QED
        BY <1>0, <2>3, <2>6, <3>2, <4>1, Cached, UncachedNext, Zenon
    <3>3. CASE j # k /\ (\A c \in Buf : blockno[c] # j)
      <4>1. \A c \in Buf : blockno'[c] # j
        BY <1>0, <2>1, <2>2, <3>3
      <4> QED
        BY <2>3, <3>3, <4>1, Uncached, UncachedNext, Zenon
    <3>4. ASSUME NEW c \in Buf, c # b, blockno[c] = j PROVE Value(j)' = Value(j) /\ Holder(j)' = Holder(j)
      <4>1. blockno'[c] = j /\ valid'[c] = valid[c] /\ data' = data
        BY <1>0, <2>1, <2>2, <3>4
      <4>2. Value(j) = (IF valid[c] THEN data[c] ELSE disk[j]) /\ Holder(j) = locked[c]
        BY <1>0, <3>4, Cached, Zenon
      <4>3. Value(j)' = (IF valid'[c] THEN data'[c] ELSE disk'[j]) /\ Holder(j)' = locked'[c]
        BY <1>0, <4>1, CachedNext, Zenon
      <4> QED
        BY <2>3, <4>1, <4>2, <4>3, Zenon
    <3> QED
      BY <3>1, <3>2, <3>3, <3>4, Zenon
  <2>8. Opened' = Opened
    <3>1. \A q \in User \ {p} : pc'[q] = pc[q] /\ want'[q] = want[q]
      BY <1>0, <2>1 DEF Goto
    <3>2. pc'[p] \notin Seeing /\ pc[p] \notin Seeing
      BY <1>0, <2>1 DEF Goto, Seeing
    <3> QED
      BY <3>1, <3>2, SameOpened, Zenon
  <2> QED
    BY <2>7, <2>8, AbstractSame, Zenon
<1> QED
  BY <1>1, <1>2, Zenon

LEMMA AbstractInit == ASSUME Init, IInv PROVE Abstract!Init
<1>1. \A k \in Block : Value(k) = disk[k] /\ Holder(k) = None
  BY Uncached, BcacheAssumption, Zenon DEF Init
<1>2. Opened = {}
  BY Zenon DEF Init, Opened
<1>3. disk \in [Block -> Val]
  BY Zenon DEF Init
<1> QED
  BY <1>1, <1>2, <1>3, Zenon DEF Abstract!Init

LEMMA AbstractStep ==
  ASSUME IInv, IInv', [Next]_vars
  PROVE  [Abstract!Next]_(Abstract!vars)
<1>1. CASE UNCHANGED vars \/ panic
  BY <1>1, AbstractSame, Zenon DEF vars, bufs, Value, Holder, Opened, panic
<1>2. CASE \E p \in User : Step(p)
  <2>1. PICK p \in User : \/ Start(p) \/ acquiresleep(p) \/ acquiresleep_sleeps(p)
                          \/ Caller(p) \/ Finish(p)
    BY <1>2, Zenon DEF Step
  <2>2. CASE Start(p)
    BY <2>2, CountingHidden, RecycleHidden, Zenon DEF Start
  <2>3. CASE acquiresleep(p) \/ bread(p) \/ modify(p) \/ releasesleep(p)
    BY <2>3, AcquireLocks, BreadOpens, ModifyUpdates, ReleaseUnlocks, Zenon
  <2>4. CASE acquiresleep_sleeps(p) \/ bpin(p) \/ brelse(p)
    BY <2>4, CountingHidden, Zenon
  <2>5. CASE bwrite(p) \/ bunpin(p)
    BY <2>5, WritebackHidden, Zenon
  <2> QED
    BY <2>1, <2>2, <2>3, <2>4, <2>5, Zenon DEF Caller, Finish
<1> QED
  BY <1>1, <1>2, Zenon DEF Next

\* The buffer cache is a store of blocks under exclusive locks: reading ahead of
\* the lock, recycling, pinning and writing back do not show, however many
\* processes, blocks and buffers there are.
THEOREM Refinement == Spec => ImplementsBlockStore
<1>1. Init /\ IInv => Abstract!Init
  BY AbstractInit, Zenon
<1>2. IInv /\ IInv' /\ [Next]_vars => [Abstract!Next]_(Abstract!vars)
  BY AbstractStep, Zenon
<1> QED
  BY <1>1, <1>2, Invariance, PTL DEF Spec, ImplementsBlockStore, Abstract!Spec
=============================================================================
