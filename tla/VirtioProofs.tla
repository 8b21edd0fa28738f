---------------------------- MODULE VirtioProofs ----------------------------
(* VirtioDisk, for any number of processes, any ring and any wrap-around   *)
(* of the ring indices: the driver's descriptors, rings and wakeups.       *)
EXTENDS VirtioDisk, Residues, FiniteFacts, TLAPS

\* The chain of a request: its three descriptors are linked, taken, and known
\* by the process.
ChainInv ==
  \A p \in Busy :
    LET i == idx[p]  j == desc[i].next  k == desc[j].next IN
    /\ desc[i].more /\ desc[j].more /\ desc[j].buf = p /\ info[i] = p
    /\ i # j /\ i # k /\ j # k /\ {i, j, k} \cap free = {}

\* The entries of the rings that their reader has not consumed
PendingCount == (aidx - last) % U16
PendingAt(n) == avail[(last + n) % NUM]
DoneCount == (uidx - used_idx) % U16
DoneAt(n) == used[(used_idx + n) % NUM]

\* Descriptor i is the head of a request whose process waits, not yet served or
\* served.
Waits(i) == info[i] \in Proc /\ idx[info[i]] = i /\ pc[info[i]] = "wait"
InFlight(i) == Waits(i) /\ ~served[info[i]]
Completed(i) == Waits(i) /\ served[info[i]]

\* A request is in one place: the avail ring, the device or the used ring.
RequestInv ==
  /\ \A n \in 0 .. PendingCount - 1 : InFlight(PendingAt(n)) /\ PendingAt(n) \notin fetched
  /\ \A m, n \in 0 .. PendingCount - 1 : PendingAt(m) = PendingAt(n) => m = n
  /\ \A i \in fetched : InFlight(i)
  /\ \A n \in 0 .. DoneCount - 1 : Completed(DoneAt(n))
  /\ \A m, n \in 0 .. DoneCount - 1 : DoneAt(m) = DoneAt(n) => m = n

DiskInv == \A p \in Proc : (disk[p] <=> pc[p] = "wait") /\ (pc[p] = "done" => served[p])

IInv == RingInv /\ ChainInv /\ RequestInv /\ DiskInv /\ SleepersHaveReason

-----------------------------------------------------------------------------
(* The ring indices                                                        *)

LEMMA Sizes ==
  /\ NUM \in Nat \ {0} /\ NUM >= 3 /\ U16 \in Nat \ {0} /\ NUM <= U16 /\ U16 % NUM = 0
  /\ 1 \in 0 .. U16 - 1
<1>0. NUM \in Nat \ {0} /\ NUM >= 3 /\ U16 \in Nat \ {0} /\ U16 % NUM = 0
  BY VirtioAssumption
<1>1. PICK m \in Int : U16 = NUM * m
  <2>1. U16 \div NUM \in Int /\ U16 = NUM * (U16 \div NUM) + (U16 % NUM)
    BY <1>0, Division
  <2>2. PICK q \in Int : U16 = NUM * q + 0
    BY <1>0, <2>1, Zenon
  <2> QED
    BY <1>0, <2>2
<1>2. m >= 1
  <2>1. m = 0 => NUM * m = 0
    BY <1>0
  <2>2. m <= -1 => NUM * m <= -NUM
    BY <1>0, MulShrinks, Zenon
  <2> QED
    BY <1>0, <1>1, <2>1, <2>2
<1>3. NUM * m >= NUM
  BY <1>0, <1>2, MulGrows, Zenon
<1> QED
  BY <1>0, <1>1, <1>3

\* An entry more in a ring that is not full: the others stay where they are.
CanAdd(ring, lo, hi, x, cnt, new, h) ==
  /\ ring \in [Desc -> Desc] /\ lo \in 0 .. U16 - 1 /\ hi \in 0 .. U16 - 1 /\ x \in Desc
  /\ cnt \in Nat /\ cnt = (hi - lo) % U16 /\ cnt < NUM /\ cnt + 1 < U16
  /\ h = (hi + 1) % U16 /\ new = [ring EXCEPT ![hi % NUM] = x]
LEMMA RingAdd ==
  ASSUME NEW ring, NEW lo, NEW hi, NEW x, NEW cnt, NEW new, NEW h,
         CanAdd(ring, lo, hi, x, cnt, new, h)
  PROVE  /\ new \in [Desc -> Desc] /\ h \in 0 .. U16 - 1 /\ (h - lo) % U16 = cnt + 1
         /\ new[(lo + cnt) % NUM] = x
         /\ \A n \in 0 .. cnt - 1 : new[(lo + n) % NUM] = ring[(lo + n) % NUM]
<1> USE DEF CanAdd
<1>0. NUM \in Nat \ {0} /\ U16 \in Nat \ {0} /\ 1 \in 0 .. U16 - 1
  BY Sizes, Zenon
<1>1. cnt = IF hi >= lo THEN hi - lo ELSE hi - lo + U16
  BY <1>0, Distance, Zenon
<1>2. (hi + 1) % U16 = IF hi + 1 < U16 THEN hi + 1 ELSE hi + 1 - U16
  BY <1>0, Wraps, Zenon
<1>3. h \in 0 .. U16 - 1
  BY <1>0, <1>2
<1>4. (h - lo) % U16 = IF h >= lo THEN h - lo ELSE h - lo + U16
  BY <1>0, <1>3, Distance, Zenon
<1>5. h = IF hi + 1 < U16 THEN hi + 1 ELSE hi + 1 - U16
  BY <1>2, Zenon
<1>k. PICK k \in Int : k = cnt /\ k = IF hi >= lo THEN hi - lo ELSE hi - lo + U16
  BY <1>1
<1>6. (IF h >= lo THEN h - lo ELSE h - lo + U16) = k + 1
  <2>1. k + 1 < U16
    BY <1>k, Zenon
  <2> QED
    BY <1>0, <1>3, <1>5, <1>k, <2>1
<1>7. (h - lo) % U16 = cnt + 1
  BY <1>4, <1>6, <1>k, Zenon
<1>8. (lo + cnt) % NUM = hi % NUM
  <2>1. hi \in Int /\ (lo + k = hi \/ lo + k = hi + U16)
    BY <1>0, <1>k
  <2>2. U16 \in Nat /\ U16 % NUM = 0
    BY Sizes, Zenon
  <2>3. (hi + U16) % NUM = hi % NUM
    BY <1>0, <2>1, <2>2, SameSlot, Zenon
  <2> QED
    BY <1>k, <2>1, <2>3, Zenon
<1>9. hi % NUM \in Desc
  <2>1. hi \in Int
    OBVIOUS
  <2> QED
    BY <1>0, <2>1, Division, Zenon DEF Desc
<1>10. ASSUME NEW n \in 0 .. cnt - 1
       PROVE  (lo + n) % NUM # hi % NUM /\ (lo + n) % NUM \in Desc
  <2>1. PICK a \in Int, d \in 1 .. NUM - 1 : a = lo + n /\ a + d = lo + cnt
    <3>1. /\ lo + n \in Int /\ cnt - n \in 1 .. NUM - 1
          /\ (lo + n) + (cnt - n) = lo + cnt
      BY <1>0
    <3> QED
      BY <3>1, Zenon
  <2>2. (a + d) % NUM # a % NUM /\ a % NUM \in Desc
    BY <1>0, ResidueDiffers, Division, Zenon DEF Desc
  <2> QED
    BY <1>8, <2>1, <2>2, Zenon
<1> QED
  BY <1>3, <1>7, <1>8, <1>9, <1>10, Zenon

CanDrop(lo, hi, cnt, l) ==
  /\ lo \in 0 .. U16 - 1 /\ hi \in 0 .. U16 - 1 /\ lo # hi
  /\ cnt \in Nat /\ cnt = (hi - lo) % U16 /\ l = (lo + 1) % U16
LEMMA RingDrop ==
  ASSUME NEW lo, NEW hi, NEW cnt, NEW l, CanDrop(lo, hi, cnt, l)
  PROVE  /\ cnt > 0 /\ l \in 0 .. U16 - 1 /\ (hi - l) % U16 = cnt - 1
         /\ (lo + 0) % NUM = lo % NUM
         /\ \A n \in Nat : (l + n) % NUM = (lo + (n + 1)) % NUM
<1> USE DEF CanDrop
<1>0. NUM \in Nat \ {0} /\ U16 \in Nat \ {0} /\ 1 \in 0 .. U16 - 1
  BY Sizes, Zenon
<1>1. cnt = IF hi >= lo THEN hi - lo ELSE hi - lo + U16
  BY <1>0, Distance, Zenon
<1>2. (lo + 1) % U16 = IF lo + 1 < U16 THEN lo + 1 ELSE lo + 1 - U16
  BY <1>0, Wraps, Zenon
<1>3. l \in 0 .. U16 - 1
  BY <1>0, <1>2
<1>4. (hi - l) % U16 = IF hi >= l THEN hi - l ELSE hi - l + U16
  BY <1>0, <1>3, Distance, Zenon
<1>5. l = IF lo + 1 < U16 THEN lo + 1 ELSE lo + 1 - U16
  BY <1>2, Zenon
<1>k. PICK k \in Nat : k = cnt /\ k = IF hi >= lo THEN hi - lo ELSE hi - lo + U16
  BY <1>1, Zenon
<1>6. (IF hi >= l THEN hi - l ELSE hi - l + U16) = k - 1 /\ k > 0
  BY <1>0, <1>3, <1>5, <1>k
<1>7. (hi - l) % U16 = cnt - 1 /\ cnt > 0
  BY <1>4, <1>6, <1>k, Zenon
<1>8. ASSUME NEW n \in Nat PROVE (l + n) % NUM = (lo + (n + 1)) % NUM
  <2>1. PICK a \in Int, b \in Int : a = l + n /\ b = lo + (n + 1)
    BY <1>3
  <2>2. b = a \/ b = a + U16
    BY <1>0, <1>3, <1>5, <2>1
  <2>3. U16 \in Nat /\ U16 % NUM = 0
    BY Sizes, Zenon
  <2>4. (a + U16) % NUM = a % NUM
    BY <1>0, <2>3, SameSlot, Zenon
  <2> QED
    BY <1>0, <2>1, <2>2, <2>4, Zenon
<1>9. lo + 0 = lo
  OBVIOUS
<1> QED
  BY <1>3, <1>7, <1>8, <1>9, Zenon

-----------------------------------------------------------------------------
(* Chains and counts                                                       *)

\* The descriptors that the process's request is linked to
Next1(p) == desc[idx[p]].next
Next2(p) == desc[Next1(p)].next
Trio(p) == {idx[p], Next1(p), Next2(p)}

\* ChainInv, process by process
Linked(p) ==
  /\ desc[idx[p]].more /\ desc[Next1(p)].more /\ desc[Next1(p)].buf = p /\ info[idx[p]] = p
  /\ idx[p] # Next1(p) /\ idx[p] # Next2(p) /\ Next1(p) # Next2(p) /\ Trio(p) \cap free = {}

LEMMA ChainInvIs == ChainInv <=> \A p \in Busy : Linked(p)
  BY Zenon DEF ChainInv, Linked, Trio, Next1, Next2

LEMMA ChainInvIsNext == ChainInv' <=> \A p \in Busy' : Linked(p)'
  BY Zenon DEF ChainInv, Linked, Trio, Next1, Next2

LEMMA TrioType ==
  ASSUME TypeOK, NEW p \in Proc
  PROVE  idx[p] \in Desc /\ Next1(p) \in Desc /\ Next2(p) \in Desc
  BY Zenon DEF TypeOK, Next1, Next2

LEMMA ChainIs == ASSUME NEW p, Linked(p) PROVE Chain(idx[p]) = Trio(p)
  BY Zenon DEF Linked, Chain, Trio, Next1, Next2

LEMMA ChainIsNext == ASSUME NEW p, Linked(p)' PROVE Chain(idx[p])' = Trio(p)'
  BY Zenon DEF Linked, Chain, Trio, Next1, Next2

\* A chain stays if its descriptors and its process's index do.
LEMMA LinkFrame ==
  ASSUME NEW p, Linked(p), idx'[p] = idx[p], \A i \in Trio(p) : desc'[i] = desc[i],
         info'[idx[p]] = p, Trio(p) \cap free' = {}
  PROVE  Linked(p)' /\ Trio(p)' = Trio(p)
<1>1. idx'[p] = idx[p] /\ Next1(p)' = Next1(p)
  BY Zenon DEF Next1, Trio
<1>2. Next2(p)' = Next2(p)
  BY <1>1, Zenon DEF Next2, Trio
<1> QED
  BY <1>1, <1>2, Zenon DEF Linked, Trio

\* The head of a request that waits is taken, and is its process's alone.
LEMMA Heads ==
  ASSUME IInv, NEW i, Waits(i)
  PROVE  /\ info[i] \in Proc /\ info[i] \in Busy /\ idx[info[i]] = i /\ Linked(info[i])
         /\ i \notin free /\ i \in Desc
<1>1. info[i] \in Proc /\ info[i] \in Busy /\ idx[info[i]] = i
  BY Zenon DEF Waits, Busy
<1>2. Linked(info[i])
  BY <1>1, ChainInvIs, Zenon DEF IInv
<1> QED
  BY <1>1, <1>2, TrioType, Zenon DEF Linked, Trio, IInv, RingInv

DescCount == IsFiniteSet(Desc) /\ Cardinality(Desc) = NUM
LEMMA Finite ==
  ASSUME Counting, DescCount, TypeOK
  PROVE  /\ IsFiniteSet(free) /\ Cardinality(free) \in Nat
         /\ IsFiniteSet(Busy) /\ Cardinality(Busy) \in Nat
<1>1. IsFiniteSet(free)
  BY Zenon DEF TypeOK, Counting, DescCount
<1>2. IsFiniteSet(Busy)
  BY VirtioAssumption, Zenon DEF Busy, Counting
<1> QED
  BY <1>1, <1>2, Zenon DEF Counting

LEMMA CountTypes ==
  ASSUME TypeOK
  PROVE  PendingCount \in Nat /\ DoneCount \in Nat
<1>1. /\ aidx \in 0 .. U16 - 1 /\ last \in 0 .. U16 - 1
      /\ uidx \in 0 .. U16 - 1 /\ used_idx \in 0 .. U16 - 1 /\ U16 \in Nat \ {0}
  BY Sizes, Zenon DEF TypeOK
<1>2. PendingCount \in 0 .. U16 - 1 /\ DoneCount \in 0 .. U16 - 1
  BY <1>1, Distance, Zenon DEF PendingCount, DoneCount
<1> QED
  BY <1>1, <1>2

\* T is S without three of its elements.
ThreeOf(S, T, a, b, c) ==
  {a, b, c} \subseteq S /\ a # b /\ a # c /\ b # c /\ T = S \ {a, b, c}

LEMMA ThreeLess ==
  ASSUME Counting, NEW S, NEW T, NEW a, NEW b, NEW c, IsFiniteSet(S), ThreeOf(S, T, a, b, c)
  PROVE  /\ IsFiniteSet(T) /\ Cardinality(S) \in Nat /\ Cardinality(T) \in Nat
         /\ Cardinality(S) = Cardinality(T) + 3
<1>0. a \in S /\ b \in S /\ c \in S /\ a # b /\ a # c /\ b # c /\ T = S \ {a, b, c}
  BY Zenon DEF ThreeOf
<1>1. PICK R, Q, P : R = S \ {a} /\ Q = R \ {b} /\ P = Q \ {c}
  BY Zenon
<1>2. b \in R /\ c \in Q /\ P = T
  BY <1>0, <1>1, Zenon
<1>3. IsFiniteSet(R) /\ Cardinality(R) = Cardinality(S) - 1
  BY <1>0, <1>1, Zenon DEF Counting
<1>4. IsFiniteSet(Q) /\ Cardinality(Q) = Cardinality(R) - 1
  BY <1>1, <1>2, <1>3, Zenon DEF Counting
<1>5. IsFiniteSet(P) /\ Cardinality(P) = Cardinality(Q) - 1
  BY <1>1, <1>2, <1>4, ZenonT(30) DEF Counting
<1>6. Cardinality(S) \in Nat /\ Cardinality(P) \in Nat
  BY <1>5, Zenon DEF Counting
<1> QED
  BY <1>2, <1>3, <1>4, <1>5, <1>6

-----------------------------------------------------------------------------
LEMMA InitInv == ASSUME Counting, DescCount, Init PROVE IInv
<1>0. NUM \in Nat \ {0} /\ U16 \in Nat \ {0} /\ 0 \in Desc
  BY Sizes DEF Desc
<1>1. TypeOK
  <2>1. disk \in [Proc -> BOOLEAN] /\ served \in [Proc -> BOOLEAN] /\ handler \in BOOLEAN
        /\ raise \in BOOLEAN /\ isr \in BOOLEAN
    BY Zenon DEF Init
  <2>2. desc \in [Desc -> [buf : Proc \cup {None}, more : BOOLEAN, next : Desc]]
    BY <1>0, Zenon DEF Init, Unused
  <2> QED
    BY <1>0, <2>1, <2>2 DEF Init, TypeOK
<1>2. Busy = {}
  BY Zenon DEF Init, Busy
<1>3. Cardinality(free) = NUM /\ Cardinality(Busy) = 0
  BY <1>2, Zenon DEF Init, Counting, DescCount
<1>4. RingInv
  BY <1>0, <1>1, <1>2, <1>3 DEF RingInv, NoDescriptorLeaks, Init
<1>5. PendingCount = 0 /\ DoneCount = 0
  <2>1. 0 - 0 = 0 /\ 0 \in 0 .. U16 - 1
    BY <1>0
  <2>2. 0 % U16 = 0
    BY <1>0, <2>1, ResidueSmall, Zenon
  <2> QED
    BY <2>1, <2>2, Zenon DEF PendingCount, DoneCount, Init
<1>6. RequestInv
  BY <1>5 DEF RequestInv, Init
<1>7. ChainInv /\ DiskInv /\ SleepersHaveReason
  BY <1>2, Zenon DEF ChainInv, DiskInv, SleepersHaveReason, Init
<1> QED
  BY <1>4, <1>6, <1>7, Zenon DEF IInv

-----------------------------------------------------------------------------
(* virtio_disk_rw()                                                        *)

\* A process that has no request moves; the free descriptors may be cleared.
LEMMA IdleFrame ==
  ASSUME IInv, TypeOK', \A i \in Desc \ free : desc'[i] = desc[i],
         \A q \in Proc : pc'[q] = pc[q] \/ {pc[q], pc'[q]} \subseteq {"idle", "alloc", "nodesc"},
         \A q \in Proc : pc'[q] = "nodesc" => Cardinality(free) < 3,
         UNCHANGED <<free, info, avail, aidx, used_idx, disk, idx, handler, panicked, device>>
  PROVE  IInv'
<1>0. TypeOK /\ free' = free /\ info' = info /\ idx' = idx /\ served' = served /\ fetched' = fetched
  BY Zenon DEF IInv, RingInv, device
<1>1. Busy' = Busy
  BY Zenon DEF Busy
<1>2. ASSUME NEW p \in Busy PROVE Linked(p) /\ Linked(p)' /\ Trio(p)' = Trio(p)
  <2>1. Linked(p) /\ p \in Proc
    BY ChainInvIs, Zenon DEF IInv, Busy
  <2>2. Trio(p) \subseteq Desc \ free
    BY <1>0, <2>1, TrioType, Zenon DEF Linked, Trio
  <2>3. info[idx[p]] = p /\ Trio(p) \cap free = {}
    BY <2>1, Zenon DEF Linked
  <2> QED
    BY <1>0, <2>1, <2>2, <2>3, LinkFrame, Zenon
<1>3. ChainInv'
  BY <1>1, <1>2, ChainInvIsNext, Zenon
<1>4. RingInv'
  <2>1. \A p \in Busy : Chain(idx[p])' = Chain(idx[p])
    BY <1>2, ChainIs, ChainIsNext, Zenon
  <2> QED
    BY <1>0, <1>1, <2>1 DEF IInv, RingInv, NoDescriptorLeaks
<1>5. \A i : (InFlight(i)' <=> InFlight(i)) /\ (Completed(i)' <=> Completed(i))
  BY <1>0 DEF InFlight, Completed, Waits
<1>6. /\ PendingCount' = PendingCount /\ DoneCount' = DoneCount
      /\ \A n : PendingAt(n)' = PendingAt(n) /\ DoneAt(n)' = DoneAt(n)
  BY Zenon DEF PendingCount, DoneCount, PendingAt, DoneAt, device
<1>7. RequestInv'
  BY <1>0, <1>5, <1>6, Zenon DEF IInv, RequestInv
<1>8. DiskInv'
  BY <1>0, Zenon DEF IInv, DiskInv
<1>9. SleepersHaveReason'
  BY <1>0, Zenon DEF IInv, SleepersHaveReason, device
<1> QED
  BY <1>3, <1>4, <1>7, <1>8, <1>9, Zenon DEF IInv

LEMMA StartInv ==
  ASSUME IInv, NEW p \in Proc, Start(p) \/ alloc3_fails(p)
  PROVE  IInv'
<1>0. TypeOK
  BY Zenon DEF IInv, RingInv
<1>1. CASE Start(p)
  <2>1. TypeOK'
    BY <1>0, <1>1, Zenon DEF Start, TypeOK, device
  <2>2. desc' = desc /\ \A q \in Proc : pc'[q] = pc[q] \/ (pc[q] = "idle" /\ pc'[q] = "alloc")
    BY <1>0, <1>1, Zenon DEF Start, TypeOK
  <2>3. \A q \in Proc : pc'[q] = "nodesc" => Cardinality(free) < 3
    BY <2>2, Zenon DEF IInv, SleepersHaveReason
  <2> QED
    BY <1>1, <2>1, <2>2, <2>3, IdleFrame, Zenon DEF Start
<1>2. CASE alloc3_fails(p)
  <2>1. desc' \in [Desc -> [buf : Proc \cup {None}, more : BOOLEAN, next : Desc]]
    <3>1. Unused \in [buf : Proc \cup {None}, more : BOOLEAN, next : Desc]
      <4>1. 0 \in Desc
        BY Sizes DEF Desc
      <4> QED
        BY <4>1, Zenon DEF Unused
    <3>2. desc \in [Desc -> [buf : Proc \cup {None}, more : BOOLEAN, next : Desc]]
      BY <1>0, Zenon DEF TypeOK
    <3> QED
      BY <1>2, <3>1, <3>2, Zenon DEF alloc3_fails
  <2>2. \A q \in Proc : pc'[q] = pc[q] \/ {pc[q], pc'[q]} \subseteq {"idle", "alloc", "nodesc"}
    BY <1>0, <1>2, Zenon DEF alloc3_fails, Wake, TypeOK
  <2>3. pc' \in [Proc -> {"idle", "alloc", "nodesc", "wait", "done"}]
    BY <1>0, <1>2, Zenon DEF alloc3_fails, Wake, TypeOK
  <2>4. TypeOK'
    BY <1>0, <1>2, <2>1, <2>3, Zenon DEF alloc3_fails, TypeOK, device
  <2>5. \A i \in Desc \ free : desc'[i] = desc[i]
    BY <1>2, Zenon DEF alloc3_fails
  <2> QED
    BY <1>2, <2>2, <2>4, <2>5, IdleFrame, Zenon DEF alloc3_fails
<1> QED
  BY <1>1, <1>2, Zenon

\* The requests of the other processes, while p's request begins or ends
LEMMA OthersWait ==
  ASSUME IInv, NEW p \in Proc, pc[p] # "wait",
         \A q \in Proc \ {p} : idx'[q] = idx[q] /\ served'[q] = served[q] /\ (pc[q] = "wait" => pc'[q] = "wait"),
         \A i \in Desc : info'[i] # info[i] => i \in free \/ info[i] = p
  PROVE  \A i : /\ InFlight(i) => InFlight(i)' /\ i \notin free /\ i \in Desc
                /\ Completed(i) => Completed(i)' /\ i \notin free /\ i \in Desc
<1>1. ASSUME NEW i, Waits(i)
      PROVE  Waits(i)' /\ i \notin free /\ i \in Desc /\ info'[i] = info[i] /\ served'[info[i]] = served[info[i]]
  <2>1. info[i] \in Proc \ {p} /\ idx[info[i]] = i /\ pc[info[i]] = "wait" /\ i \notin free /\ i \in Desc
    BY <1>1, Heads, Zenon DEF Waits
  <2>2. info'[i] = info[i]
    BY <2>1, Zenon
  <2> QED
    BY <2>1, <2>2, Zenon DEF Waits
<1> QED
  BY <1>1 DEF InFlight, Completed

LEMMA SubmitInv ==
  ASSUME Counting, DescCount, IInv, PendingCount <= Cardinality(Busy), NEW p \in Proc, submit(p)
  PROVE  IInv'
<1>0. TypeOK /\ p \notin Busy /\ pc[p] = "alloc" /\ PendingCount \in Nat
  BY CountTypes, Zenon DEF IInv, RingInv, submit, Busy
<1>1. PICK i0 \in free, i1 \in free, i2 \in free :
        /\ i0 < i1 /\ i1 < i2
        /\ free' = free \ {i0, i1, i2}
        /\ desc' = [desc EXCEPT ![i0] = [buf |-> None, more |-> TRUE, next |-> i1],
                                ![i1] = [buf |-> p, more |-> TRUE, next |-> i2],
                                ![i2] = [buf |-> None, more |-> FALSE, next |-> 0]]
        /\ info' = [info EXCEPT ![i0] = p]
        /\ avail' = [avail EXCEPT ![aidx % NUM] = i0]
        /\ idx' = [idx EXCEPT ![p] = i0]
  BY Zenon DEF submit, FirstFree
<1>2. {i0, i1, i2} \subseteq Desc /\ i0 # i1 /\ i0 # i2 /\ i1 # i2
  <2>1. {i0, i1, i2} \subseteq Desc
    BY <1>0, Zenon DEF TypeOK
  <2> QED
    BY <1>1, <2>1 DEF Desc
<1>3. /\ desc' \in [Desc -> [buf : Proc \cup {None}, more : BOOLEAN, next : Desc]]
      /\ desc'[i0].more /\ desc'[i0].next = i1
      /\ desc'[i1].more /\ desc'[i1].next = i2 /\ desc'[i1].buf = p
      /\ \A i \in Desc \ {i0, i1, i2} : desc'[i] = desc[i]
  <2> DEFINE D == [buf : Proc \cup {None}, more : BOOLEAN, next : Desc]
  <2>1. desc \in [Desc -> D]
    BY <1>0, Zenon DEF TypeOK
  <2>2. 0 \in Desc
    BY Sizes DEF Desc
  <2>3. PICK a, b, c : /\ a = [buf |-> None, more |-> TRUE, next |-> i1]
                       /\ b = [buf |-> p, more |-> TRUE, next |-> i2]
                       /\ c = [buf |-> None, more |-> FALSE, next |-> 0]
    BY Zenon
  <2>4. a \in D /\ b \in D /\ c \in D
    BY <1>2, <2>2, <2>3, Zenon
  <2>5. a.more /\ a.next = i1 /\ b.more /\ b.next = i2 /\ b.buf = p
    BY <2>3, Zenon
  <2>6. desc' = [desc EXCEPT ![i0] = a, ![i1] = b, ![i2] = c]
    BY <1>1, <2>3, Zenon
  <2> HIDE DEF D
  <2>7. /\ desc' \in [Desc -> D] /\ desc'[i0] = a /\ desc'[i1] = b
        /\ \A i \in Desc \ {i0, i1, i2} : desc'[i] = desc[i]
    BY <1>2, <2>1, <2>4, <2>6, Zenon
  <2> QED
    BY <2>5, <2>7, Zenon DEF D
<1>s. /\ aidx' = (aidx + 1) % U16 /\ disk' = [disk EXCEPT ![p] = TRUE]
      /\ pc' = [pc EXCEPT ![p] = "wait"] /\ served' = [served EXCEPT ![p] = FALSE]
      /\ UNCHANGED <<used_idx, handler, panicked, used, uidx, fetched, last, raise, isr>>
  BY Zenon DEF submit
<1>8. /\ idx'[p] = i0 /\ info'[i0] = p /\ pc'[p] = "wait" /\ ~served'[p] /\ disk'[p]
      /\ \A q \in Proc \ {p} : /\ idx'[q] = idx[q] /\ pc'[q] = pc[q]
                               /\ served'[q] = served[q] /\ disk'[q] = disk[q]
      /\ \A i \in Desc \ {i0} : info'[i] = info[i]
  BY <1>0, <1>1, <1>2, <1>s, Zenon DEF TypeOK
<1>11. Busy' = Busy \cup {p}
  BY <1>8 DEF Busy
<1>4. /\ Cardinality(free) \in Nat /\ Cardinality(free) >= 3 /\ Cardinality(free') = Cardinality(free) - 3
      /\ Cardinality(Busy) \in Nat /\ Cardinality(Busy') = Cardinality(Busy) + 1
  <2>1. IsFiniteSet(free) /\ IsFiniteSet(Busy) /\ Cardinality(Busy) \in Nat
    BY <1>0, Finite, Zenon
  <2>2. /\ Cardinality(free) \in Nat /\ Cardinality(free') \in Nat
        /\ Cardinality(free) = Cardinality(free') + 3
    <3>1. ThreeOf(free, free', i0, i1, i2)
      BY <1>1, <1>2, Zenon DEF ThreeOf
    <3> QED
      BY <2>1, <3>1, ThreeLess, SMT
  <2>3. Cardinality(Busy') = Cardinality(Busy) + 1
    BY <1>0, <1>11, <2>1, Zenon DEF Counting
  <2> QED
    BY <2>1, <2>2, <2>3
<1>5. /\ PendingCount < NUM /\ PendingCount + 1 < U16
      /\ Cardinality(free') + 3 * Cardinality(Busy') = NUM
  <2>1. Cardinality(free) + 3 * Cardinality(Busy) = NUM
    BY Zenon DEF IInv, RingInv, NoDescriptorLeaks
  <2> QED
    BY <1>0, <1>4, <2>1, Sizes
<1>c. PICK cnt \in Nat : cnt = PendingCount
  BY <1>0, Zenon
<1>6. /\ avail' \in [Desc -> Desc] /\ aidx' \in 0 .. U16 - 1 /\ PendingCount' = cnt + 1
      /\ PendingAt(cnt)' = i0 /\ \A n \in 0 .. cnt - 1 : PendingAt(n)' = PendingAt(n)
  <2>1. /\ avail \in [Desc -> Desc] /\ last \in 0 .. U16 - 1 /\ aidx \in 0 .. U16 - 1
        /\ i0 \in Desc /\ last' = last
    BY <1>0, <1>2, <1>s, Zenon DEF TypeOK
  <2>2. PendingCount = (aidx - last) % U16 /\ PendingCount' = (aidx' - last) % U16
    BY <2>1, Zenon DEF PendingCount
  <2>3. cnt = (aidx - last) % U16 /\ cnt < NUM /\ cnt + 1 < U16
    BY <1>5, <1>c, <2>2, Zenon
  <2>4. /\ avail' \in [Desc -> Desc] /\ aidx' \in 0 .. U16 - 1 /\ (aidx' - last) % U16 = cnt + 1
        /\ avail'[(last + cnt) % NUM] = i0
        /\ \A n \in 0 .. cnt - 1 : avail'[(last + n) % NUM] = avail[(last + n) % NUM]
    <3>1. CanAdd(avail, last, aidx, i0, cnt, avail', aidx')
      BY <1>1, <1>s, <1>c, <2>1, <2>3, Zenon DEF CanAdd
    <3> QED
      BY <3>1, RingAdd, SMT
  <2>5. PendingAt(cnt)' = i0 /\ \A n \in 0 .. cnt - 1 : PendingAt(n)' = PendingAt(n)
    BY <2>1, <2>4, Zenon DEF PendingAt
  <2> QED
    BY <2>2, <2>4, <2>5, Zenon
<1>7. TypeOK'
  <2>1. disk' \in [Proc -> BOOLEAN] /\ served' \in [Proc -> BOOLEAN]
    BY <1>0, <1>s, Zenon DEF TypeOK
  <2>2. /\ free' \subseteq Desc /\ info' \in [Desc -> Proc \cup {None}] /\ idx' \in [Proc -> Desc]
        /\ pc' \in [Proc -> {"idle", "alloc", "nodesc", "wait", "done"}]
    BY <1>0, <1>1, <1>2, <1>s, Zenon DEF TypeOK
  <2>3. {aidx', uidx', used_idx', last'} \subseteq 0 .. U16 - 1
    BY <1>0, <1>s, <1>6, Zenon DEF TypeOK
  <2>4. /\ used' \in [Desc -> Desc] /\ handler' \in BOOLEAN /\ fetched' \subseteq Desc
        /\ raise' \in BOOLEAN /\ isr' \in BOOLEAN
        /\ panicked' \in {"no", "free_desc 2", "null buf"}
    BY <1>0, <1>s, Zenon DEF TypeOK
  <2> QED
    BY <1>3, <1>6, <2>1, <2>2, <2>3, <2>4, Zenon DEF TypeOK
<1>9. Linked(p)' /\ Trio(p)' = {i0, i1, i2}
  <2>1. Next1(p)' = i1 /\ Next2(p)' = i2
    BY <1>3, <1>8, Zenon DEF Next1, Next2
  <2>2. Trio(p)' = {i0, i1, i2}
    BY <1>8, <2>1, Zenon DEF Trio
  <2> QED
    BY <1>1, <1>2, <1>3, <1>8, <2>1, <2>2 DEF Linked
<1>10. ASSUME NEW q \in Busy PROVE Linked(q) /\ Linked(q)' /\ Trio(q)' = Trio(q) /\ Trio(q) \cap free = {}
  <2>1. Linked(q) /\ q \in Proc /\ q # p
    BY <1>0, ChainInvIs, Zenon DEF IInv, Busy
  <2>2. Trio(q) \subseteq Desc /\ Trio(q) \cap free = {} /\ info[idx[q]] = q /\ idx[q] \in Trio(q)
    BY <1>0, <2>1, TrioType, Zenon DEF Linked, Trio
  <2>3. info'[idx[q]] = q /\ \A i \in Trio(q) : desc'[i] = desc[i]
    BY <1>3, <1>8, <2>2
  <2>4. Trio(q) \cap free' = {}
    BY <1>1, <2>2, Zenon
  <2> QED
    BY <1>8, <2>1, <2>2, <2>3, <2>4, LinkFrame, Zenon
<1>12. ChainInv'
  BY <1>9, <1>10, <1>11, ChainInvIsNext, Zenon
<1>13. RingInv'
  <2>1. \A q \in Busy : Chain(idx[q])' = Trio(q) /\ Chain(idx[q]) = Trio(q)
    BY <1>10, ChainIs, ChainIsNext, Zenon
  <2>2. Chain(idx[p])' = {i0, i1, i2}
    BY <1>9, ChainIsNext, Zenon
  <2>3. \A q, t \in Busy : q # t => Trio(q) \cap Trio(t) = {}
    BY <2>1, Zenon DEF IInv, RingInv, NoDescriptorLeaks
  <2>4. \A q \in Busy : Trio(q) \cap {i0, i1, i2} = {}
    BY <1>10, Zenon
  <2>5. \A q, t \in Busy' : q # t => Chain(idx[q])' \cap Chain(idx[t])' = {}
    BY <1>11, <2>1, <2>2, <2>3, <2>4
  <2>6. panicked' = "no"
    BY <1>s, Zenon DEF IInv, RingInv
  <2> QED
    BY <1>5, <1>7, <2>5, <2>6, Zenon DEF RingInv, NoDescriptorLeaks
<1>14. RequestInv'
  <2>1. \A i : /\ InFlight(i) => InFlight(i)' /\ i \notin free /\ i \in Desc
               /\ Completed(i) => Completed(i)' /\ i \notin free /\ i \in Desc
    <3>1. \A i \in Desc : info'[i] # info[i] => i \in free \/ info[i] = p
      BY <1>8, Zenon
    <3> QED
      BY <1>0, <1>8, <3>1, OthersWait
  <2>2. InFlight(i0)' /\ i0 \notin fetched
    <3>1. InFlight(i0)'
      BY <1>8, Zenon DEF InFlight, Waits
    <3> QED
      BY <2>1, <3>1, Zenon DEF IInv, RequestInv
  <2>3. /\ DoneCount' = DoneCount /\ fetched' = fetched /\ \A n : DoneAt(n)' = DoneAt(n)
    BY <1>s, Zenon DEF DoneCount, DoneAt
  <2>4. \A n \in 0 .. cnt - 1 : PendingAt(n)' # i0
    BY <1>c, <1>6, <2>1 DEF IInv, RequestInv
  <2>5. \A n \in 0 .. PendingCount' - 1 : n \in 0 .. cnt - 1 \/ n = cnt
    BY <1>6
  <2>6. \A n \in 0 .. PendingCount' - 1 : InFlight(PendingAt(n))' /\ PendingAt(n)' \notin fetched'
    <3> SUFFICES ASSUME NEW n \in 0 .. PendingCount' - 1
                 PROVE  InFlight(PendingAt(n))' /\ PendingAt(n)' \notin fetched'
      BY Zenon
    <3>1. PICK i : i = PendingAt(n)'
      BY Zenon
    <3>2. InFlight(i)' /\ i \notin fetched
      <4>1. CASE n = cnt
        BY <1>6, <2>2, <3>1, <4>1, Zenon
      <4>2. CASE n \in 0 .. cnt - 1
        BY <1>c, <1>6, <2>1, <3>1, <4>2 DEF IInv, RequestInv
      <4> QED
        BY <2>5, <4>1, <4>2, Zenon
    <3> QED
      BY <2>3, <3>1, <3>2, Zenon DEF InFlight, Waits
  <2>7. \A m, n \in 0 .. PendingCount' - 1 : PendingAt(m)' = PendingAt(n)' => m = n
    BY <1>c, <1>6, <2>4, <2>5 DEF IInv, RequestInv
  <2>8. \A n \in 0 .. DoneCount - 1 : Completed(DoneAt(n))'
    <3> SUFFICES ASSUME NEW n \in 0 .. DoneCount - 1 PROVE Completed(DoneAt(n))'
      BY Zenon
    <3>1. PICK i : i = DoneAt(n) /\ Completed(i)
      BY Zenon DEF IInv, RequestInv
    <3>2. Completed(i)'
      BY <2>1, <3>1, Zenon
    <3> QED
      BY <2>3, <3>1, <3>2, Zenon DEF Completed, Waits
  <2> QED
    BY <2>1, <2>3, <2>6, <2>7, <2>8, Zenon DEF IInv, RequestInv
<1>15. DiskInv'
  BY <1>8 DEF IInv, DiskInv
<1>16. SleepersHaveReason'
  BY <1>s, <1>4, <1>8 DEF IInv, SleepersHaveReason
<1> QED
  BY <1>12, <1>13, <1>14, <1>15, <1>16, Zenon DEF IInv

\* The rings are as they were, and so are the requests in them.
LEMMA RequestFrame ==
  ASSUME RequestInv, PendingCount' = PendingCount, DoneCount' = DoneCount, fetched' = fetched,
         \A n : PendingAt(n)' = PendingAt(n) /\ DoneAt(n)' = DoneAt(n),
         \A i : (InFlight(i) => InFlight(i)') /\ (Completed(i) => Completed(i)')
  PROVE  RequestInv'
<1>1. \A n \in 0 .. PendingCount - 1 : InFlight(PendingAt(n))' /\ PendingAt(n)' \notin fetched'
  <2> SUFFICES ASSUME NEW n \in 0 .. PendingCount - 1
               PROVE  InFlight(PendingAt(n))' /\ PendingAt(n)' \notin fetched'
    BY Zenon
  <2>1. PICK i : i = PendingAt(n) /\ InFlight(i) /\ i \notin fetched
    BY Zenon DEF RequestInv
  <2> QED
    BY <2>1, Zenon DEF InFlight, Waits
<1>2. \A n \in 0 .. DoneCount - 1 : Completed(DoneAt(n))'
  <2> SUFFICES ASSUME NEW n \in 0 .. DoneCount - 1 PROVE Completed(DoneAt(n))'
    BY Zenon
  <2>1. PICK i : i = DoneAt(n) /\ Completed(i)
    BY Zenon DEF RequestInv
  <2> QED
    BY <2>1, Zenon DEF Completed, Waits
<1> QED
  BY <1>1, <1>2, Zenon DEF RequestInv

LEMMA FinishInv ==
  ASSUME Counting, DescCount, IInv, NEW p \in Proc, finish(p)
  PROVE  IInv'
<1>0. TypeOK /\ p \in Busy /\ pc[p] = "done" /\ ~disk[p] /\ Linked(p)
  <2>1. p \in Busy
    BY Zenon DEF finish, Busy
  <2> QED
    BY <2>1, ChainInvIs, Zenon DEF IInv, RingInv, finish
<1>t. PICK a \in Desc, b \in Desc, c \in Desc :
        /\ Trio(p) = {a, b, c} /\ a = idx[p] /\ a # b /\ a # c /\ b # c /\ {a, b, c} \cap free = {}
  BY <1>0, TrioType, Zenon DEF Linked, Trio
<1>C. Chain(idx[p]) = {a, b, c}
  BY <1>0, <1>t, ChainIs, Zenon
<1>1. /\ panicked' = "no" /\ free' = free \cup {a, b, c}
      /\ desc' = [i \in Desc |-> IF i \in {a, b, c} THEN Unused ELSE desc[i]]
      /\ info' = [info EXCEPT ![a] = None]
      /\ pc' = [Wake(Proc, "nodesc", pc) EXCEPT ![p] = "idle"]
      /\ idx' = [idx EXCEPT ![p] = 0] /\ served' = [served EXCEPT ![p] = FALSE]
      /\ UNCHANGED <<avail, aidx, used_idx, disk, handler, used, uidx, fetched, last, raise, isr>>
  BY <1>t, <1>C, Zenon DEF finish
<1>2. /\ pc'[p] = "idle" /\ \A i \in Desc \ {a} : info'[i] = info[i]
      /\ \A q \in Proc \ {p} : /\ idx'[q] = idx[q] /\ served'[q] = served[q]
                               /\ pc'[q] = IF pc[q] = "nodesc" THEN "alloc" ELSE pc[q]
      /\ \A i \in Desc \ {a, b, c} : desc'[i] = desc[i]
  BY <1>0, <1>t, <1>1, Zenon DEF TypeOK, Wake
<1>3. Busy' = Busy \ {p}
  BY <1>2 DEF Busy
<1>4. Cardinality(free') + 3 * Cardinality(Busy') = NUM
  <2>1. IsFiniteSet(free) /\ IsFiniteSet(Busy) /\ Cardinality(Busy) \in Nat
    BY <1>0, Finite, Zenon
  <2>2. IsFiniteSet(free') /\ ThreeOf(free', free, a, b, c)
    <3>2. IsFiniteSet(free')
      <4>1. free' \subseteq Desc
        BY <1>0, <1>1, Zenon DEF TypeOK
      <4> QED
        BY <4>1, Zenon DEF Counting, DescCount
    <3> QED
      BY <1>t, <1>1, <3>2, Zenon DEF ThreeOf
  <2>3. /\ Cardinality(free') \in Nat /\ Cardinality(free) \in Nat
        /\ Cardinality(free') = Cardinality(free) + 3
    BY <2>2, ThreeLess, SMT
  <2>4. Cardinality(Busy') = Cardinality(Busy) - 1
    BY <1>0, <1>3, <2>1, Zenon DEF Counting
  <2>5. Cardinality(free) + 3 * Cardinality(Busy) = NUM
    BY Zenon DEF IInv, RingInv, NoDescriptorLeaks
  <2>6. Cardinality(free') = Cardinality(free) + 3 /\ Cardinality(free) \in Nat
    BY <2>2, <2>3, Zenon
  <2> QED
    BY <2>1, <2>4, <2>5, <2>6
<1>5. TypeOK'
  <2>1. served' \in [Proc -> BOOLEAN]
    BY <1>0, <1>1, Zenon DEF TypeOK
  <2>2. desc' \in [Desc -> [buf : Proc \cup {None}, more : BOOLEAN, next : Desc]]
    <3>1. Unused \in [buf : Proc \cup {None}, more : BOOLEAN, next : Desc]
      <4>1. 0 \in Desc
        BY Sizes DEF Desc
      <4> QED
        BY <4>1, Zenon DEF Unused
    <3>2. desc \in [Desc -> [buf : Proc \cup {None}, more : BOOLEAN, next : Desc]]
      BY <1>0, Zenon DEF TypeOK
    <3> QED
      BY <1>1, <3>1, <3>2, Zenon
  <2>3. 0 \in Desc
    BY Sizes DEF Desc
  <2>4. pc' \in [Proc -> {"idle", "alloc", "nodesc", "wait", "done"}]
    BY <1>0, <1>1, Zenon DEF TypeOK, Wake
  <2>5. free' \subseteq Desc /\ info' \in [Desc -> Proc \cup {None}] /\ idx' \in [Proc -> Desc]
    BY <1>0, <1>1, <2>3, Zenon DEF TypeOK
  <2>6. /\ avail' \in [Desc -> Desc] /\ used' \in [Desc -> Desc]
        /\ {aidx', uidx', used_idx', last'} \subseteq 0 .. U16 - 1
        /\ disk' \in [Proc -> BOOLEAN] /\ handler' \in BOOLEAN /\ fetched' \subseteq Desc
        /\ raise' \in BOOLEAN /\ isr' \in BOOLEAN /\ panicked' \in {"no", "free_desc 2", "null buf"}
    BY <1>0, <1>1, Zenon DEF TypeOK
  <2> QED
    BY <2>1, <2>2, <2>4, <2>5, <2>6, Zenon DEF TypeOK
<1>6. \A q \in Busy : Linked(q) /\ Chain(idx[q]) = Trio(q)
  BY ChainInvIs, ChainIs, Zenon DEF IInv
<1>7. \A q, t \in Busy : q # t => Trio(q) \cap Trio(t) = {}
  BY <1>6, Zenon DEF IInv, RingInv, NoDescriptorLeaks
<1>8. ASSUME NEW q \in Busy \ {p} PROVE Linked(q)' /\ Trio(q)' = Trio(q)
  <2>1. Linked(q) /\ q \in Proc \ {p} /\ Trio(q) \cap {a, b, c} = {}
    BY <1>0, <1>t, <1>6, <1>7, Zenon DEF Busy
  <2>2. Trio(q) \subseteq Desc /\ Trio(q) \cap free = {} /\ info[idx[q]] = q /\ idx[q] \in Trio(q)
    BY <1>0, <2>1, TrioType, Zenon DEF Linked, Trio
  <2>3. info'[idx[q]] = q /\ \A i \in Trio(q) : desc'[i] = desc[i]
    BY <1>2, <2>1, <2>2, Zenon
  <2>4. Trio(q) \cap free' = {} /\ idx'[q] = idx[q]
    BY <1>1, <1>2, <2>1, <2>2, Zenon
  <2> QED
    BY <2>1, <2>3, <2>4, LinkFrame, Zenon
<1>9. ChainInv'
  BY <1>3, <1>8, ChainInvIsNext, Zenon
<1>10. RingInv'
  <2>1. \A q \in Busy' : Chain(idx[q])' = Trio(q)
    BY <1>3, <1>8, ChainIsNext, Zenon
  <2>2. \A q, t \in Busy' : q # t => Chain(idx[q])' \cap Chain(idx[t])' = {}
    BY <1>3, <1>7, <2>1, Zenon
  <2> QED
    BY <1>1, <1>4, <1>5, <2>2, Zenon DEF RingInv, NoDescriptorLeaks
<1>11. RequestInv'
  <2>1. \A i : (InFlight(i) => InFlight(i)') /\ (Completed(i) => Completed(i)')
    <3>1. \A i \in Desc : info'[i] # info[i] => i \in free \/ info[i] = p
      BY <1>0, <1>t, <1>2, Zenon DEF Linked
    <3>2. \A q \in Proc \ {p} : /\ idx'[q] = idx[q] /\ served'[q] = served[q]
                                /\ (pc[q] = "wait" => pc'[q] = "wait")
      BY <1>2, Zenon
    <3> QED
      BY <1>0, <3>1, <3>2, OthersWait, Zenon
  <2>2. /\ PendingCount' = PendingCount /\ DoneCount' = DoneCount /\ fetched' = fetched
        /\ \A n : PendingAt(n)' = PendingAt(n) /\ DoneAt(n)' = DoneAt(n)
    BY <1>1, Zenon DEF PendingCount, DoneCount, PendingAt, DoneAt
  <2> QED
    BY <2>1, <2>2, RequestFrame, Zenon DEF IInv
<1>12. DiskInv'
  BY <1>0, <1>1, <1>2 DEF IInv, DiskInv
<1>13. SleepersHaveReason'
  BY <1>1, <1>2 DEF IInv, SleepersHaveReason
<1> QED
  BY <1>9, <1>10, <1>11, <1>12, <1>13, Zenon DEF IInv

-----------------------------------------------------------------------------
(* virtio_disk_intr() and the device                                       *)

\* The descriptors and their owners are as they were.
LEMMA RingFrame ==
  ASSUME IInv, TypeOK', Busy' = Busy, UNCHANGED <<free, desc, info, idx, panicked>>
  PROVE  RingInv' /\ ChainInv'
<1>1. \A i : Chain(i)' = Chain(i)
  BY Zenon DEF Chain
<1>2. RingInv'
  BY <1>1, Zenon DEF IInv, RingInv, NoDescriptorLeaks
<1>3. ChainInv'
  BY Zenon DEF IInv, ChainInv
<1> QED
  BY <1>2, <1>3, Zenon

\* The interrupt line and the handler's entry and exit
LEMMA SignalInv ==
  ASSUME IInv, intr_ack \/ intr_return \/ DevInterrupt \/ UNCHANGED vars
  PROVE  IInv'
<1>1. /\ UNCHANGED <<free, desc, info, avail, aidx, used_idx, disk, pc, idx, panicked>>
      /\ UNCHANGED <<used, uidx, fetched, last, served>>
  BY Zenon DEF intr_ack, intr_return, DevInterrupt, vars, driver, device
<1>2. handler' \in BOOLEAN /\ raise' \in BOOLEAN /\ isr' \in BOOLEAN
  BY Zenon DEF intr_ack, intr_return, DevInterrupt, vars, driver, device, IInv, RingInv, TypeOK
<1>3. TypeOK'
  BY <1>1, <1>2, Zenon DEF IInv, RingInv, TypeOK
<1>4. Busy' = Busy
  BY <1>1, Zenon DEF Busy
<1>5. RingInv' /\ ChainInv'
  BY <1>1, <1>3, <1>4, RingFrame, Zenon
<1>6. RequestInv'
  <2>1. /\ PendingCount' = PendingCount /\ DoneCount' = DoneCount /\ fetched' = fetched
        /\ \A n : PendingAt(n)' = PendingAt(n) /\ DoneAt(n)' = DoneAt(n)
    BY <1>1, Zenon DEF PendingCount, DoneCount, PendingAt, DoneAt
  <2>2. \A i : (InFlight(i) => InFlight(i)') /\ (Completed(i) => Completed(i)')
    BY <1>1, Zenon DEF InFlight, Completed, Waits
  <2> QED
    BY <2>1, <2>2, RequestFrame, Zenon DEF IInv
<1>7. DiskInv'
  BY <1>1, Zenon DEF IInv, DiskInv
<1>8. used_idx # uidx => raise' \/ isr' \/ handler'
  BY Zenon DEF intr_ack, intr_return, DevInterrupt, vars, driver, device, IInv, SleepersHaveReason
<1>9. SleepersHaveReason'
  BY <1>1, <1>8, Zenon DEF IInv, SleepersHaveReason
<1> QED
  BY <1>5, <1>6, <1>7, <1>9, Zenon DEF IInv

\* The handler consumes the first entry of the used ring: its process's request
\* is completed, so there is a buffer and a process to wake.
LEMMA EntryInv ==
  ASSUME IInv, intr_entry
  PROVE  IInv'
<1>0. TypeOK /\ DoneCount \in Nat /\ used_idx # uidx /\ panicked = "no" /\ handler
  BY CountTypes, Zenon DEF IInv, RingInv, intr_entry
<1>c. PICK cnt \in Nat : cnt = DoneCount
  BY <1>0, Zenon
<1>i. PICK l : l = (used_idx + 1) % U16
  BY Zenon
<1>1. /\ cnt > 0 /\ l \in 0 .. U16 - 1 /\ (uidx - l) % U16 = cnt - 1
      /\ (used_idx + 0) % NUM = used_idx % NUM
      /\ \A n \in Nat : (l + n) % NUM = (used_idx + (n + 1)) % NUM
  <2>1. CanDrop(used_idx, uidx, cnt, l)
    BY <1>0, <1>c, <1>i, Zenon DEF CanDrop, TypeOK, DoneCount
  <2> QED
    BY <2>1, RingDrop, SMT
<1>2. PICK i : i = used[used_idx % NUM] /\ i = DoneAt(0) /\ Completed(i)
  <2>1. 0 \in 0 .. DoneCount - 1
    BY <1>c, <1>1
  <2>2. used[used_idx % NUM] = DoneAt(0)
    BY <1>1, Zenon DEF DoneAt
  <2> QED
    BY <2>1, <2>2, Zenon DEF IInv, RequestInv
<1>3. PICK b \in Proc : /\ b = info[i] /\ idx[b] = i /\ pc[b] = "wait" /\ served[b] /\ b # None
  BY <1>2, VirtioAssumption, Zenon DEF Completed, Waits
<1>4. /\ panicked' = "no" /\ disk' = [disk EXCEPT ![b] = FALSE] /\ pc' = Wake({b}, "wait", pc)
      /\ used_idx' = l
      /\ UNCHANGED <<free, desc, info, avail, aidx, idx, handler>>
      /\ UNCHANGED <<used, uidx, fetched, last, raise, isr, served>>
  BY <1>2, <1>3, <1>i, Zenon DEF intr_entry, device
<1>5. /\ pc'[b] = "done" /\ ~disk'[b]
      /\ \A q \in Proc \ {b} : pc'[q] = pc[q] /\ disk'[q] = disk[q]
  BY <1>0, <1>3, <1>4, Zenon DEF TypeOK, Wake
<1>6. TypeOK'
  <2>1. disk' \in [Proc -> BOOLEAN]
    BY <1>0, <1>4, Zenon DEF TypeOK
  <2>2. pc' \in [Proc -> {"idle", "alloc", "nodesc", "wait", "done"}]
    BY <1>0, <1>4, Zenon DEF TypeOK, Wake
  <2> QED
    BY <1>0, <1>1, <1>4, <2>1, <2>2, Zenon DEF TypeOK
<1>7. Busy' = Busy
  BY <1>3, <1>5, Zenon DEF Busy
<1>8. RingInv' /\ ChainInv'
  BY <1>0, <1>4, <1>6, <1>7, RingFrame, Zenon
<1>9. ASSUME NEW j, j # i PROVE (InFlight(j) => InFlight(j)') /\ (Completed(j) => Completed(j)')
  BY <1>3, <1>4, <1>5, <1>9, Zenon DEF InFlight, Completed, Waits
<1>10. ~InFlight(i)
  BY <1>3, Zenon DEF InFlight
<1>11. /\ PendingCount' = PendingCount /\ \A n : PendingAt(n)' = PendingAt(n)
       /\ DoneCount' = cnt - 1 /\ \A n \in Nat : DoneAt(n)' = DoneAt(n + 1)
  BY <1>1, <1>4, Zenon DEF PendingCount, PendingAt, DoneCount, DoneAt
<1>12. RequestInv'
  <2>1. \A n \in 0 .. PendingCount - 1 : InFlight(PendingAt(n))' /\ PendingAt(n)' \notin fetched'
    <3> SUFFICES ASSUME NEW n \in 0 .. PendingCount - 1
                 PROVE  InFlight(PendingAt(n))' /\ PendingAt(n)' \notin fetched'
      BY Zenon
    <3>1. PICK j : j = PendingAt(n) /\ InFlight(j) /\ j \notin fetched
      BY Zenon DEF IInv, RequestInv
    <3>2. InFlight(j)'
      BY <1>9, <1>10, <3>1, Zenon
    <3> QED
      BY <1>4, <1>11, <3>1, <3>2, Zenon DEF InFlight, Waits
  <2>2. \A n \in 0 .. DoneCount' - 1 : Completed(DoneAt(n))'
    <3> SUFFICES ASSUME NEW n \in 0 .. DoneCount' - 1 PROVE Completed(DoneAt(n))'
      BY Zenon
    <3>0. n \in Nat /\ n + 1 \in 0 .. DoneCount - 1 /\ 0 \in 0 .. DoneCount - 1 /\ n + 1 # 0
      BY <1>c, <1>1, <1>11
    <3>1. PICK j : j = DoneAt(n + 1) /\ Completed(j) /\ j # i
      BY <1>2, <3>0, Zenon DEF IInv, RequestInv
    <3>2. Completed(j)' /\ DoneAt(n)' = j
      BY <1>9, <1>11, <3>0, <3>1, Zenon
    <3> QED
      BY <3>2, Zenon DEF Completed, Waits
  <2>3. \A m, n \in 0 .. DoneCount' - 1 : DoneAt(m)' = DoneAt(n)' => m = n
    <3> SUFFICES ASSUME NEW m \in 0 .. DoneCount' - 1, NEW n \in 0 .. DoneCount' - 1,
                        DoneAt(m)' = DoneAt(n)'
                 PROVE  m = n
      BY Zenon
    <3>1. m \in Nat /\ n \in Nat /\ m + 1 \in 0 .. DoneCount - 1 /\ n + 1 \in 0 .. DoneCount - 1
      BY <1>c, <1>1, <1>11
    <3>2. DoneAt(m + 1) = DoneAt(n + 1)
      BY <1>11, <3>1, Zenon
    <3>3. m + 1 = n + 1
      BY <3>1, <3>2, Zenon DEF IInv, RequestInv
    <3> QED
      BY <3>1, <3>3
  <2>4. \A j \in fetched' : InFlight(j)'
    BY <1>4, <1>9, <1>10, Zenon DEF IInv, RequestInv
  <2>5. \A m, n \in 0 .. PendingCount' - 1 : PendingAt(m)' = PendingAt(n)' => m = n
    BY <1>11, Zenon DEF IInv, RequestInv
  <2> QED
    BY <1>11, <2>1, <2>2, <2>3, <2>4, <2>5, Zenon DEF RequestInv
<1>13. DiskInv'
  <2> SUFFICES ASSUME NEW q \in Proc
               PROVE  (disk'[q] <=> pc'[q] = "wait") /\ (pc'[q] = "done" => served'[q])
    BY Zenon DEF DiskInv
  <2>1. CASE q = b
    BY <1>3, <1>4, <1>5, <2>1, Zenon
  <2>2. CASE q # b
    BY <1>4, <1>5, <2>2, Zenon DEF IInv, DiskInv
  <2> QED
    BY <2>1, <2>2, Zenon
<1>14. SleepersHaveReason'
  BY <1>0, <1>4, <1>5, Zenon DEF IInv, SleepersHaveReason
<1> QED
  BY <1>8, <1>12, <1>13, <1>14, Zenon DEF IInv

\* The device moves a request from the avail ring to itself.
LEMMA FetchInv ==
  ASSUME IInv, DevFetch
  PROVE  IInv'
<1>0. TypeOK /\ PendingCount \in Nat /\ last # aidx
  BY CountTypes, Zenon DEF IInv, RingInv, DevFetch
<1>c. PICK cnt \in Nat : cnt = PendingCount
  BY <1>0, Zenon
<1>i. PICK l : l = (last + 1) % U16
  BY Zenon
<1>1. /\ cnt > 0 /\ l \in 0 .. U16 - 1 /\ (aidx - l) % U16 = cnt - 1
      /\ (last + 0) % NUM = last % NUM
      /\ \A n \in Nat : (l + n) % NUM = (last + (n + 1)) % NUM
  <2>1. CanDrop(last, aidx, cnt, l)
    BY <1>0, <1>c, <1>i, Zenon DEF CanDrop, TypeOK, PendingCount
  <2> QED
    BY <2>1, RingDrop, SMT
<1>2. PICK i \in Desc : i = avail[last % NUM] /\ i = PendingAt(0) /\ InFlight(i)
  <2>1. 0 \in 0 .. PendingCount - 1
    BY <1>c, <1>1
  <2>2. avail[last % NUM] = PendingAt(0)
    BY <1>1, Zenon DEF PendingAt
  <2>3. InFlight(PendingAt(0))
    BY <2>1, Zenon DEF IInv, RequestInv
  <2> QED
    BY <2>2, <2>3, Heads, Zenon DEF InFlight
<1>4. /\ fetched' = fetched \cup {i} /\ last' = l
      /\ UNCHANGED <<free, desc, info, avail, aidx, used_idx, disk, pc, idx, handler, panicked>>
      /\ UNCHANGED <<used, uidx, raise, isr, served>>
  BY <1>2, <1>i, Zenon DEF DevFetch, driver
<1>6. TypeOK'
  BY <1>0, <1>1, <1>2, <1>4, Zenon DEF TypeOK
<1>7. Busy' = Busy
  BY <1>4, Zenon DEF Busy
<1>8. RingInv' /\ ChainInv'
  BY <1>4, <1>6, <1>7, RingFrame, Zenon
<1>9. \A j : (InFlight(j)' <=> InFlight(j)) /\ (Completed(j)' <=> Completed(j))
  BY <1>4, Zenon DEF InFlight, Completed, Waits
<1>11. /\ DoneCount' = DoneCount /\ \A n : DoneAt(n)' = DoneAt(n)
       /\ PendingCount' = cnt - 1 /\ \A n \in Nat : PendingAt(n)' = PendingAt(n + 1)
  BY <1>1, <1>4, Zenon DEF PendingCount, PendingAt, DoneCount, DoneAt
<1>12. RequestInv'
  <2>0. \A n \in 0 .. PendingCount' - 1 :
           n \in Nat /\ n + 1 \in 0 .. PendingCount - 1 /\ 0 \in 0 .. PendingCount - 1 /\ n + 1 # 0
    BY <1>c, <1>1, <1>11
  <2>1. \A n \in 0 .. PendingCount' - 1 : InFlight(PendingAt(n))' /\ PendingAt(n)' \notin fetched'
    <3> SUFFICES ASSUME NEW n \in 0 .. PendingCount' - 1
                 PROVE  InFlight(PendingAt(n))' /\ PendingAt(n)' \notin fetched'
      BY Zenon
    <3>1. PICK j : j = PendingAt(n + 1) /\ InFlight(j) /\ j \notin fetched /\ j # i
      BY <1>2, <2>0, Zenon DEF IInv, RequestInv
    <3>2. InFlight(j)' /\ PendingAt(n)' = j /\ j \notin fetched'
      BY <1>4, <1>9, <1>11, <2>0, <3>1, Zenon
    <3> QED
      BY <3>2, Zenon DEF InFlight, Waits
  <2>2. \A n \in 0 .. DoneCount' - 1 : Completed(DoneAt(n))'
    <3> SUFFICES ASSUME NEW n \in 0 .. DoneCount - 1 PROVE Completed(DoneAt(n))'
      BY <1>11, Zenon
    <3>1. PICK j : j = DoneAt(n) /\ Completed(j)
      BY Zenon DEF IInv, RequestInv
    <3>2. Completed(j)' /\ DoneAt(n)' = j
      BY <1>9, <1>11, <3>1, Zenon
    <3> QED
      BY <3>2, Zenon DEF Completed, Waits
  <2>3. \A m, n \in 0 .. PendingCount' - 1 : PendingAt(m)' = PendingAt(n)' => m = n
    <3> SUFFICES ASSUME NEW m \in 0 .. PendingCount' - 1, NEW n \in 0 .. PendingCount' - 1,
                        PendingAt(m)' = PendingAt(n)'
                 PROVE  m = n
      BY Zenon
    <3>1. m \in Nat /\ n \in Nat /\ m + 1 \in 0 .. PendingCount - 1 /\ n + 1 \in 0 .. PendingCount - 1
      BY <2>0, Zenon
    <3>2. PendingAt(m + 1) = PendingAt(n + 1)
      BY <1>11, <3>1, Zenon
    <3>3. m + 1 = n + 1
      BY <3>1, <3>2, Zenon DEF IInv, RequestInv
    <3> QED
      BY <3>1, <3>3
  <2>4. \A j \in fetched' : InFlight(j)'
    BY <1>2, <1>4, <1>9, Zenon DEF IInv, RequestInv
  <2>5. \A m, n \in 0 .. DoneCount' - 1 : DoneAt(m)' = DoneAt(n)' => m = n
    BY <1>11, Zenon DEF IInv, RequestInv
  <2> QED
    BY <2>1, <2>2, <2>3, <2>4, <2>5, Zenon DEF RequestInv
<1>13. DiskInv'
  BY <1>4, Zenon DEF IInv, DiskInv
<1>14. SleepersHaveReason'
  BY <1>4, Zenon DEF IInv, SleepersHaveReason
<1> QED
  BY <1>8, <1>12, <1>13, <1>14, Zenon DEF IInv

\* The device finds the waiting process's buffer in the chain of a request it
\* serves, and the used ring has room for its entry.
LEMMA ServeInv ==
  ASSUME Counting, DescCount, IInv, \A i \in fetched : DoneCount + 1 <= Cardinality(Busy), DevServe
  PROVE  IInv'
<1>0. TypeOK /\ DoneCount \in Nat
  BY CountTypes, Zenon DEF IInv, RingInv
<1>c. PICK cnt \in Nat : cnt = DoneCount
  BY <1>0, Zenon
<1>1. PICK i \in fetched :
        LET b == desc[desc[i].next].buf IN
        /\ fetched' = fetched \ {i}
        /\ served' = IF b = None THEN served ELSE [served EXCEPT ![b] = TRUE]
        /\ used' = [used EXCEPT ![uidx % NUM] = i]
        /\ uidx' = (uidx + 1) % U16
        /\ raise' = TRUE
        /\ UNCHANGED <<driver, last, isr>>
  BY Zenon DEF DevServe
<1>2. i \in Desc /\ InFlight(i)
  BY <1>0, <1>1, Zenon DEF IInv, RequestInv, TypeOK
<1>3. PICK b \in Proc : /\ b = info[i] /\ desc[desc[i].next].buf = b /\ b # None
                        /\ idx[b] = i /\ pc[b] = "wait" /\ ~served[b]
  <2>1. Linked(info[i]) /\ info[i] \in Proc /\ idx[info[i]] = i
    BY <1>2, Heads, Zenon DEF InFlight
  <2> QED
    BY <1>2, <2>1, VirtioAssumption, Zenon DEF Linked, Next1, InFlight, Waits
<1>4. /\ fetched' = fetched \ {i} /\ served' = [served EXCEPT ![b] = TRUE]
      /\ used' = [used EXCEPT ![uidx % NUM] = i] /\ uidx' = (uidx + 1) % U16 /\ raise'
      /\ UNCHANGED <<free, desc, info, avail, aidx, used_idx, disk, pc, idx, handler, panicked>>
      /\ UNCHANGED <<last, isr>>
  BY <1>1, <1>3, Zenon DEF driver
<1>5. served'[b] /\ \A q \in Proc \ {b} : served'[q] = served[q]
  BY <1>0, <1>4, Zenon DEF TypeOK
<1>6. cnt < NUM /\ cnt + 1 < U16
  <2>1. /\ Cardinality(free) + 3 * Cardinality(Busy) = NUM
        /\ Cardinality(free) \in Nat /\ Cardinality(Busy) \in Nat
    BY <1>0, Finite, Zenon DEF IInv, RingInv, NoDescriptorLeaks
  <2>2. cnt + 1 <= Cardinality(Busy)
    BY <1>c, <1>1, Zenon
  <2> QED
    BY <2>1, <2>2, Sizes
<1>7. /\ used' \in [Desc -> Desc] /\ uidx' \in 0 .. U16 - 1 /\ (uidx' - used_idx) % U16 = cnt + 1
      /\ used'[(used_idx + cnt) % NUM] = i
      /\ \A n \in 0 .. cnt - 1 : used'[(used_idx + n) % NUM] = used[(used_idx + n) % NUM]
  <2>1. used \in [Desc -> Desc] /\ used_idx \in 0 .. U16 - 1 /\ uidx \in 0 .. U16 - 1
    BY <1>0, Zenon DEF TypeOK
  <2>2. cnt = (uidx - used_idx) % U16
    BY <1>c, Zenon DEF DoneCount
  <2>3. CanAdd(used, used_idx, uidx, i, cnt, used', uidx')
    BY <1>c, <1>2, <1>4, <1>6, <2>1, <2>2, Zenon DEF CanAdd
  <2> QED
    BY <2>3, RingAdd, SMT
<1>8. TypeOK'
  <2>1. served' \in [Proc -> BOOLEAN] /\ raise' \in BOOLEAN
    BY <1>0, <1>1, <1>4, Zenon DEF TypeOK
  <2>2. {aidx', uidx', used_idx', last'} \subseteq 0 .. U16 - 1 /\ fetched' \subseteq Desc
    <3>1. aidx' = aidx /\ used_idx' = used_idx /\ last' = last /\ fetched' \subseteq fetched
      BY <1>4, Zenon
    <3>2. {aidx, used_idx, last} \subseteq 0 .. U16 - 1 /\ fetched \subseteq Desc
      BY <1>0, Zenon DEF TypeOK
    <3>3. uidx' \in 0 .. U16 - 1
      BY <1>7, Zenon
    <3> QED
      BY <3>1, <3>2, <3>3, Zenon
  <2>3. /\ free' \subseteq Desc /\ info' \in [Desc -> Proc \cup {None}]
        /\ desc' \in [Desc -> [buf : Proc \cup {None}, more : BOOLEAN, next : Desc]]
        /\ avail' \in [Desc -> Desc] /\ disk' \in [Proc -> BOOLEAN]
        /\ pc' \in [Proc -> {"idle", "alloc", "nodesc", "wait", "done"}]
        /\ idx' \in [Proc -> Desc] /\ handler' \in BOOLEAN /\ isr' \in BOOLEAN
        /\ panicked' \in {"no", "free_desc 2", "null buf"}
    BY <1>0, <1>4, Zenon DEF TypeOK
  <2> QED
    BY <1>7, <2>1, <2>2, <2>3, Zenon DEF TypeOK
<1>9. Busy' = Busy
  BY <1>4, Zenon DEF Busy
<1>10. RingInv' /\ ChainInv'
  BY <1>4, <1>8, <1>9, RingFrame, Zenon
<1>11. /\ \A j : j # i /\ InFlight(j) => InFlight(j)'
       /\ \A j : Completed(j) => Completed(j)' /\ j # i
       /\ Completed(i)'
  <2>1. ASSUME NEW j, j # i, InFlight(j) PROVE InFlight(j)'
    BY <1>3, <1>4, <1>5, <2>1, Zenon DEF InFlight, Waits
  <2>2. ASSUME NEW j, Completed(j) PROVE Completed(j)' /\ j # i
    BY <1>3, <1>4, <1>5, <2>2, Zenon DEF Completed, Waits
  <2>3. Completed(i)'
    BY <1>3, <1>4, <1>5, Zenon DEF Completed, Waits
  <2> QED
    BY <2>1, <2>2, <2>3, Zenon
<1>12. /\ PendingCount' = PendingCount /\ \A n : PendingAt(n)' = PendingAt(n)
       /\ DoneCount' = cnt + 1 /\ DoneAt(cnt)' = i /\ \A n \in 0 .. cnt - 1 : DoneAt(n)' = DoneAt(n)
  BY <1>4, <1>7, Zenon DEF PendingCount, PendingAt, DoneCount, DoneAt
<1>13. RequestInv'
  <2>0. \A n \in 0 .. DoneCount' - 1 : n \in 0 .. cnt - 1 \/ n = cnt
    BY <1>12
  <2>1. \A n \in 0 .. PendingCount' - 1 : InFlight(PendingAt(n))' /\ PendingAt(n)' \notin fetched'
    <3> SUFFICES ASSUME NEW n \in 0 .. PendingCount - 1
                 PROVE  InFlight(PendingAt(n))' /\ PendingAt(n)' \notin fetched'
      BY <1>12, Zenon
    <3>1. PICK j : j = PendingAt(n) /\ InFlight(j) /\ j \notin fetched /\ j # i
      BY <1>1, Zenon DEF IInv, RequestInv
    <3>2. InFlight(j)' /\ PendingAt(n)' = j /\ j \notin fetched'
      BY <1>4, <1>11, <1>12, <3>1, Zenon
    <3> QED
      BY <3>2, Zenon DEF InFlight, Waits
  <2>2. \A n \in 0 .. DoneCount' - 1 : Completed(DoneAt(n))'
    <3> SUFFICES ASSUME NEW n \in 0 .. DoneCount' - 1 PROVE Completed(DoneAt(n))'
      BY Zenon
    <3>1. PICK j : j = DoneAt(n)' /\ Completed(j)'
      <4>1. CASE n = cnt
        BY <1>11, <1>12, <4>1, Zenon
      <4>2. CASE n \in 0 .. cnt - 1
        BY <1>c, <1>11, <1>12, <4>2, Zenon DEF IInv, RequestInv
      <4> QED
        BY <2>0, <4>1, <4>2, Zenon
    <3> QED
      BY <3>1, Zenon DEF Completed, Waits
  <2>3. \A n \in 0 .. cnt - 1 : DoneAt(n)' # i
    BY <1>c, <1>11, <1>12, Zenon DEF IInv, RequestInv
  <2>4. \A m, n \in 0 .. DoneCount' - 1 : DoneAt(m)' = DoneAt(n)' => m = n
    BY <1>c, <1>12, <2>0, <2>3 DEF IInv, RequestInv
  <2>5. \A j \in fetched' : InFlight(j)'
    BY <1>4, <1>11, Zenon DEF IInv, RequestInv
  <2>6. \A m, n \in 0 .. PendingCount' - 1 : PendingAt(m)' = PendingAt(n)' => m = n
    BY <1>12, Zenon DEF IInv, RequestInv
  <2> QED
    BY <2>1, <2>2, <2>4, <2>5, <2>6, Zenon DEF RequestInv
<1>14. DiskInv'
  <2> SUFFICES ASSUME NEW q \in Proc
               PROVE  (disk'[q] <=> pc'[q] = "wait") /\ (pc'[q] = "done" => served'[q])
    BY Zenon DEF DiskInv
  <2>1. CASE q = b
    BY <1>3, <1>4, <1>5, <2>1, Zenon DEF IInv, DiskInv
  <2>2. CASE q # b
    BY <1>4, <1>5, <2>2, Zenon DEF IInv, DiskInv
  <2> QED
    BY <2>1, <2>2, Zenon
<1>15. SleepersHaveReason'
  BY <1>4, Zenon DEF IInv, SleepersHaveReason
<1> QED
  BY <1>10, <1>13, <1>14, <1>15, Zenon DEF IInv

-----------------------------------------------------------------------------
(* The theorems                                                            *)

INSTANCE FiniteSetTheorems

LEMMA Counts == Counting /\ DescCount
<1>1. Counting
  BY FS_EmptySet, FS_CardinalityType, FS_Subset, FS_AddElement, FS_RemoveElement, Zenon DEF Counting
<1>2. DescCount
  BY Sizes, FS_Interval DEF Desc, DescCount
<1> QED
  BY <1>1, <1>2, Zenon

\* No more requests than processes that wait for one: the rings cannot overflow.
LEMMA PendingBound == ASSUME IInv PROVE PendingCount <= Cardinality(Busy)
<1>0. TypeOK /\ PendingCount \in Nat
  BY CountTypes, Zenon DEF IInv, RingInv
<1> DEFINE S == 0 .. PendingCount - 1
           f == [n \in S |-> info[PendingAt(n)]]
<1>1. \A n \in S : Waits(PendingAt(n))
  BY Zenon DEF IInv, RequestInv, InFlight
<1>2. \A n \in S : f[n] \in Busy /\ idx[f[n]] = PendingAt(n)
  BY <1>1, Heads, Zenon
<1>3. \A m, n \in S : f[m] = f[n] => m = n
  BY <1>2 DEF IInv, RequestInv
<1>4. f \in Injection(S, Busy)
  BY <1>2, <1>3, Zenon DEF Injection, IsInjective
<1>5. Cardinality(S) <= Cardinality(Busy)
  BY <1>0, <1>4, Counts, Finite, FS_Injection
<1>6. Cardinality(S) = PendingCount
  BY <1>0, FS_Interval
<1> QED
  BY <1>5, <1>6, Zenon

LEMMA DoneBound ==
  ASSUME IInv, NEW i \in fetched PROVE DoneCount + 1 <= Cardinality(Busy)
<1>0. TypeOK /\ DoneCount \in Nat /\ InFlight(i)
  BY CountTypes, Zenon DEF IInv, RingInv, RequestInv
<1>i. info[i] \in Busy /\ ~served[info[i]]
  BY <1>0, Heads, Zenon DEF InFlight
<1> DEFINE S == 0 .. DoneCount - 1
           f == [n \in S |-> info[DoneAt(n)]]
<1>1. \A n \in S : Waits(DoneAt(n)) /\ served[info[DoneAt(n)]]
  BY Zenon DEF IInv, RequestInv, Completed
<1>2. \A n \in S : f[n] \in Busy \ {info[i]} /\ idx[f[n]] = DoneAt(n)
  BY <1>1, <1>i, Heads, Zenon
<1>3. \A m, n \in S : f[m] = f[n] => m = n
  BY <1>2 DEF IInv, RequestInv
<1>4. f \in Injection(S, Busy \ {info[i]})
  BY <1>2, <1>3, Zenon DEF Injection, IsInjective
<1>5. /\ IsFiniteSet(Busy) /\ Cardinality(Busy) \in Nat /\ IsFiniteSet(Busy \ {info[i]})
      /\ Cardinality(Busy \ {info[i]}) = Cardinality(Busy) - 1
  BY <1>0, <1>i, Counts, Finite, FS_RemoveElement, Zenon
<1>6. Cardinality(S) <= Cardinality(Busy \ {info[i]})
  BY <1>4, <1>5, FS_Injection
<1>7. Cardinality(S) = DoneCount
  BY <1>0, FS_Interval
<1> QED
  BY <1>0, <1>5, <1>6, <1>7

\* IInv is an invariant of the driver and the device, for every number of
\* processes, every ring and every width of the ring indices.
THEOREM Invariance == Spec => []IInv
<1>1. IInv /\ [Next]_vars => IInv'
  <2> SUFFICES ASSUME IInv, [Next]_vars PROVE IInv'
    BY Zenon
  <2>1. CASE \E p \in Proc : Start(p) \/ rw(p)
    BY <2>1, StartInv, SubmitInv, FinishInv, PendingBound, Counts, Zenon DEF rw
  <2>2. CASE virtio_disk_intr
    BY <2>2, SignalInv, EntryInv, Zenon DEF virtio_disk_intr
  <2>3. CASE Device
    BY <2>3, SignalInv, FetchInv, ServeInv, DoneBound, Counts, Zenon DEF Device
  <2>4. CASE UNCHANGED vars
    BY <2>4, SignalInv, Zenon
  <2> QED
    BY <2>1, <2>2, <2>3, <2>4, Zenon DEF Next
<1>2. Init => IInv
  BY InitInv, Counts, Zenon
<1> QED
  BY <1>1, <1>2, PTL DEF Spec

\* alloc3_desc(), free_chain() and the handler never lose a descriptor, hand one
\* out twice or panic, in whatever order the device completes the requests.
THEOREM RingSafe == Spec => []RingInv
<1>1. IInv => RingInv
  BY Zenon DEF IInv
<1> QED
  BY <1>1, Invariance, PTL

\* The device transfers only to buffers whose virtio_disk_rw() still waits, and
\* virtio_disk_rw() returns only after its transfer.
THEOREM TransfersAwaited == Spec => []NoStrayTransfer
<1>1. IInv => NoStrayTransfer
  <2> SUFFICES ASSUME IInv PROVE NoStrayTransfer
    BY Zenon
  <2>1. \A i \in Pending \cup fetched : InFlight(i)
    BY Zenon DEF Pending, PendingAt, PendingCount, IInv, RequestInv
  <2>2. ASSUME NEW i, InFlight(i)
        PROVE  LET b == desc[desc[i].next].buf IN
               b # None /\ disk[b] /\ ~served[b] /\ Chain(i) \cap free = {} /\ idx[b] = i
    <3>1. PICK b \in Proc : b = info[i] /\ idx[b] = i /\ Linked(b) /\ b # None /\ ~served[b] /\ pc[b] = "wait"
      BY <2>2, Heads, VirtioAssumption, Zenon DEF InFlight, Waits
    <3>2. desc[desc[i].next].buf = b /\ Chain(i) \cap free = {}
      BY <3>1, ChainIs, Zenon DEF Linked, Next1
    <3>3. disk[b]
      BY <3>1, Zenon DEF IInv, DiskInv
    <3> QED
      BY <3>1, <3>2, <3>3, Zenon
  <2>3. \A p \in Proc : pc[p] = "done" => served[p]
    BY Zenon DEF IInv, DiskInv
  <2> QED
    BY <2>1, <2>2, <2>3, Zenon DEF NoStrayTransfer
<1> QED
  BY <1>1, Invariance, PTL

\* An entry in the used ring always has an interrupt or the running handler to
\* come, though the handler acknowledges before it reads the ring; and who sleeps
\* on disk.free[0] sleeps because fewer than three descriptors are free.
THEOREM CompletionsSeen == Spec => []SleepersHaveReason
<1>1. IInv => SleepersHaveReason
  BY Zenon DEF IInv
<1> QED
  BY <1>1, Invariance, PTL
=============================================================================
