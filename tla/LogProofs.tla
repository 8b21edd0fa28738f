----------------------------- MODULE LogProofs -----------------------------
(* Log, for any number of threads, blocks and slots: the inductive         *)
(* invariant, step by step; log.c implements the transactional disk; no    *)
(* wakeup is lost; and the log area has room.                              *)
EXTENDS Log, FiniteFacts, TLAPS

LEMMA InitInv == Init => IInv
<1> SUFFICES ASSUME Init PROVE IInv
  BY Zenon
<1> USE LogAssumption
<1>0. committing \in BOOLEAN
  BY Zenon DEF Init
<1>1. TypeOK
  BY <1>0 DEF Init, TypeOK, Slot, PC, OpPC, CommitPC, Boot, Panic
<1>2. IsDistinct(lh) /\ IsDistinct(dhead)
  BY DEF Init, IsDistinct
<1>3. BootInv
  BY Zenon DEF Init, BootInv, Cached
<1>4. CacheInv /\ CommitInv /\ PhaseInv
  BY Zenon DEF Init, CacheInv, CommitInv, PhaseInv
<1> QED
  BY <1>1, <1>2, <1>3, <1>4, Zenon DEF IInv

-----------------------------------------------------------------------------
(* Frame lemmas: what keeps a part of the invariant true.                  *)

\* A block that a commit still has to copy or install is pinned and cached.
LEMMA ToInstall ==
  ASSUME IInv, boot = "up", NEW q \in Proc, NEW i \in 1 .. Len(lh),
         pc[q] \in {"write_log", "write_head"}
           \/ (pc[q] = "install_trans" /\ tail <= i)
  PROVE  lh[i] \in Pinned /\ Cached(lh[i])
<1>1. ~Installed(i)
  BY DEF IInv, CommitInv, Installed, CommitPC, TypeOK
<1>2. lh[i] \in Pinned
  BY <1>1, Zenon DEF Pinned
<1> QED
  BY <1>2, Zenon DEF IInv, CacheInv

\* PhaseInv survives a step that leaves the log, the disk, the pinned buffers
\* and the position of a commit alone.
LEMMA PhaseFrame ==
  ASSUME IInv, boot = "up",
         UNCHANGED <<boot, dhead, dlog, home, lh, tail>>,
         \A q \in Proc : pc'[q] \in CommitPC \ {"commit"} => pc'[q] = pc[q],
         \A q \in Proc : pc[q] \in {"install_trans", "clear"} => pc'[q] = pc[q],
         \A b \in Pinned : buf'[b] = buf[b]
  PROVE  PhaseInv'
<1>1. (\A q \in Proc : pc'[q] \notin {"install_trans", "clear"}) => dhead' = <<>>
  BY Zenon DEF IInv, PhaseInv
<1>2. ASSUME NEW q \in Proc, pc'[q] = "write_log"
      PROVE  tail <= Len(lh) /\ \A i \in 1 .. tail - 1 : dlog[i] = buf'[lh[i]]
  <2>1. pc[q] = "write_log"
    BY <1>2, Zenon DEF CommitPC
  <2>2. tail <= Len(lh) /\ \A i \in 1 .. tail - 1 : dlog[i] = buf[lh[i]]
    BY <2>1, Zenon DEF IInv, PhaseInv
  <2>3. \A i \in 1 .. tail - 1 : i \in 1 .. Len(lh)
    BY <2>2 DEF IInv, TypeOK
  <2> QED
    BY <2>1, <2>2, <2>3, ToInstall, Zenon
<1>3. ASSUME NEW q \in Proc, pc'[q] = "write_head"
      PROVE  tail = 1 /\ Len(lh) > 0 /\ \A i \in 1 .. Len(lh) : dlog[i] = buf'[lh[i]]
  <2>1. pc[q] = "write_head"
    BY <1>3, Zenon DEF CommitPC
  <2> QED
    BY <2>1, ToInstall, Zenon DEF IInv, PhaseInv
<1>4. ASSUME NEW q \in Proc, pc'[q] = "install_trans"
      PROVE  /\ dhead = lh /\ tail <= Len(lh)
             /\ \A i \in 1 .. Len(lh) : dlog[i] = IF i < tail THEN home[lh[i]]
                                                 ELSE buf'[lh[i]]
  <2>1. pc[q] = "install_trans"
    BY <1>4, Zenon DEF CommitPC
  <2>2. /\ dhead = lh /\ tail <= Len(lh)
        /\ \A i \in 1 .. Len(lh) : dlog[i] = IF i < tail THEN home[lh[i]]
                                            ELSE buf[lh[i]]
    BY <2>1, Zenon DEF IInv, PhaseInv
  <2>3. \A i \in 1 .. Len(lh) : ~(i < tail) => tail <= i
    BY DEF IInv, TypeOK
  <2> QED
    BY <2>1, <2>2, <2>3, ToInstall, Zenon
<1>5. ASSUME NEW q \in Proc, pc'[q] = "clear"
      PROVE  dhead = lh /\ \A i \in 1 .. Len(lh) : dlog[i] = home[lh[i]]
  BY <1>5, Zenon DEF IInv, PhaseInv, CommitPC
<1>6. ASSUME NEW q \in Proc, pc'[q] = "end_commit" PROVE lh = <<>>
  BY <1>6, Zenon DEF IInv, PhaseInv, CommitPC
<1> QED
  BY <1>1, <1>2, <1>3, <1>4, <1>5, <1>6, Zenon DEF PhaseInv

\* It also survives any step during which no commit is under way.
LEMMA PhaseIdle ==
  ASSUME IInv, boot = "up", UNCHANGED dhead,
         \A q \in Proc : pc[q] \notin {"install_trans", "clear"},
         \A q \in Proc : pc'[q] \notin CommitPC \ {"commit"}
  PROVE  PhaseInv'
BY Zenon DEF IInv, PhaseInv, CommitPC

\* CommitInv survives a step after which the same calls and the same commit
\* are in progress.
LEMMA CommitFrame ==
  ASSUME IInv, boot = "up", UNCHANGED <<outstanding, committing>>,
         \A q \in Proc : pc'[q] \in OpPC <=> pc[q] \in OpPC,
         \A q \in Proc : pc'[q] \in CommitPC <=> pc[q] \in CommitPC
  PROVE  CommitInv'
<1>1. Active' = Active
  BY Zenon DEF Active
<1> QED
  BY <1>1, Zenon DEF IInv, CommitInv

\* BootInv says nothing of a machine that is up.
LEMMA BootFrame ==
  ASSUME Running, UNCHANGED boot PROVE BootInv'
BY Zenon DEF Running, BootInv

LEMMA PinnedFrame ==
  ASSUME UNCHANGED <<lh, tail>>,
         \A q \in Proc : pc'[q] = "clear" <=> pc[q] = "clear",
         \A q \in Proc : pc'[q] = "install_trans" <=> pc[q] = "install_trans"
  PROVE  Pinned' = Pinned
<1>1. \A i : Installed(i)' <=> Installed(i)
  BY Zenon DEF Installed
<1> QED
  BY <1>1, Zenon DEF Pinned

\* A locked buffer is a cached block with a reference of its own.
LEMMA HeldBuffer ==
  ASSUME IInv, boot = "up", NEW p \in Proc,
         pc[p] \in {"reading", "clean", "dirty", "logged"}
  PROVE  /\ held[p] \in Block /\ held[p] \in Locked
         /\ Cached(held[p])
         /\ refcnt[held[p]] = (IF held[p] \in Pinned THEN 1 ELSE 0) + 1
         /\ refcnt[held[p]] - 1 \in Nat
<1>1. held[p] # NoBlock
  BY Zenon DEF IInv, CacheInv
<1>2. held[p] \in Block
  BY <1>1, Zenon DEF IInv, TypeOK
<1>3. held[p] \in Locked
  BY <1>1, Zenon DEF Locked
<1> QED
  BY <1>2, <1>3 DEF IInv, CacheInv

\* The five parts of CacheInv after bread() of a block that nobody holds.
LEMMA BreadCache ==
  ASSUME IInv, boot = "up", boot' = "up", NEW p \in Proc, NEW b \in Block,
         NEW l \in {"reading", "clean"}, Bread(p, b, l),
         pc[p] \in {"idle", "op"}, UNCHANGED <<lh, tail, home>>
  PROVE  CacheInv' /\ \A c \in Pinned : buf'[c] = buf[c]
<1> USE LogAssumption DEF Bread, Goto
<1>0. pc \in [Proc -> PC] /\ held \in [Proc -> Block \cup {NoBlock}]
      /\ buf \in [Block -> Val \cup {NoVal}] /\ refcnt \in [Block -> Nat]
      /\ home \in [Block -> Val]
  BY Zenon DEF IInv, TypeOK
<1>1. Pinned' = Pinned
  BY <1>0, PinnedFrame, Zenon
<1>2. Locked' = Locked \cup {b} /\ b \notin Locked
  <2>1. held[p] = NoBlock
    BY Zenon DEF IInv, CacheInv
  <2> QED
    BY <1>0, <2>1 DEF Locked, Unlocked
<1>3. Dirty' = Dirty
  BY <1>0, Zenon DEF Dirty
<1>4. /\ \A c \in Block \ {b} : buf'[c] = buf[c] /\ refcnt'[c] = refcnt[c]
      /\ buf'[b] = Contents(b) /\ refcnt'[b] = refcnt[b] + 1 /\ buf'[b] # NoVal
  BY <1>0 DEF Contents, Cached
<1>5. Pinned \subseteq Block
  BY DEF IInv, TypeOK, Pinned
<1>6. \A q \in Proc :
        held'[q] # NoBlock <=> pc'[q] \in {"reading", "clean", "dirty", "logged"}
  BY <1>0, Zenon DEF IInv, CacheInv
<1>7. \A q, r \in Proc : held'[q] = held'[r] /\ held'[q] # NoBlock => q = r
  BY <1>0, Zenon DEF IInv, CacheInv, Unlocked
<1>8. \A c \in Block :
        refcnt'[c] = (IF c \in Pinned' THEN 1 ELSE 0) + (IF c \in Locked' THEN 1 ELSE 0)
  BY <1>0, <1>1, <1>2, <1>4 DEF IInv, CacheInv
<1>9. \A c \in Pinned' \cup Locked' : Cached(c)'
  <2>1. Locked \subseteq Block
    BY <1>0 DEF Locked
  <2> QED
    BY <1>1, <1>2, <1>4, <1>5, <2>1, Zenon DEF IInv, CacheInv, Cached
<1>10. \A c \in Block : Cached(c)' /\ c \notin Pinned' \cup Dirty' => buf'[c] = home'[c]
  BY <1>1, <1>3, <1>4, Zenon DEF IInv, CacheInv, Cached, Contents
<1>11. \A c \in Pinned : buf'[c] = buf[c]
  BY <1>4, <1>5, Zenon DEF IInv, CacheInv, Contents
<1> QED
  BY <1>6, <1>7, <1>8, <1>9, <1>10, <1>11, Zenon DEF CacheInv

\* CacheInv after brelse() of a buffer whose changes, if any, were logged.
LEMMA BrelseCache ==
  ASSUME IInv, boot = "up", boot' = "up", NEW p \in Proc,
         NEW l \in {"idle", "op"}, brelse(p, l),
         pc[p] \in {"reading", "clean", "logged"}, UNCHANGED <<buf, lh, tail, home>>
  PROVE  CacheInv'
<1> USE LogAssumption DEF brelse, Goto
<1>0. pc \in [Proc -> PC] /\ held \in [Proc -> Block \cup {NoBlock}]
      /\ refcnt \in [Block -> Nat]
  BY Zenon DEF IInv, TypeOK
<1>h. held[p] \in Block /\ held[p] \in Locked
  BY HeldBuffer, Zenon
<1>1. Pinned' = Pinned
  BY <1>0, PinnedFrame, Zenon
<1>2. Locked' = Locked \ {held[p]}
  BY <1>0, <1>h DEF Locked, IInv, CacheInv
<1>3. Dirty' = Dirty
  BY <1>0, Zenon DEF Dirty
<1>4. /\ \A c \in Block \ {held[p]} : refcnt'[c] = refcnt[c]
      /\ refcnt'[held[p]] = refcnt[held[p]] - 1
  BY <1>0, <1>h, Zenon
<1>5. \A q \in Proc :
        held'[q] # NoBlock <=> pc'[q] \in {"reading", "clean", "dirty", "logged"}
  BY <1>0, Zenon DEF IInv, CacheInv
<1>6. \A q, r \in Proc : held'[q] = held'[r] /\ held'[q] # NoBlock => q = r
  BY <1>0, Zenon DEF IInv, CacheInv
<1>7. \A c \in Block :
        refcnt'[c] = (IF c \in Pinned' THEN 1 ELSE 0) + (IF c \in Locked' THEN 1 ELSE 0)
  BY <1>0, <1>h, <1>1, <1>2, <1>4, SMTT(30) DEF IInv, CacheInv
<1>8. \A c \in Pinned' \cup Locked' : Cached(c)'
  BY <1>1, <1>2, Zenon DEF IInv, CacheInv, Cached
<1>9. \A c \in Block : Cached(c)' /\ c \notin Pinned' \cup Dirty' => buf'[c] = home'[c]
  BY <1>1, <1>3, Zenon DEF IInv, CacheInv, Cached
<1> QED
  BY <1>5, <1>6, <1>7, <1>8, <1>9, Zenon DEF CacheInv

\* CacheInv survives a step that leaves buffers and pins alone.
LEMMA CacheFrame ==
  ASSUME IInv, boot = "up", UNCHANGED <<boot, buf, refcnt, home, held>>,
         Pinned' = Pinned,
         \A q \in Proc : pc'[q] # pc[q] =>
            {pc[q], pc'[q]} \cap {"reading", "clean", "dirty", "logged"} = {}
  PROVE  CacheInv'
<1>1. Locked' = Locked
  BY Zenon DEF Locked
<1>2. Dirty' = Dirty
  BY Zenon DEF Dirty
<1>3. \A q \in Proc :
        held'[q] # NoBlock <=> pc'[q] \in {"reading", "clean", "dirty", "logged"}
  BY Zenon DEF IInv, CacheInv
<1> QED
  BY <1>1, <1>2, <1>3, Zenon DEF IInv, CacheInv, Cached

-----------------------------------------------------------------------------
(* Readers and the body of a call.                                         *)

LEMMA StartReadInv ==
  ASSUME NEW p \in Proc, IInv, StartRead(p) PROVE IInv'
<1> PICK b \in Block : Bread(p, b, "reading")
  BY Zenon DEF StartRead
<1> USE DEF StartRead, Running, disk, log
<1>1. TypeOK'
  BY DEF IInv, TypeOK, PC, Bread, Goto, Contents, Cached
<1>2. IsDistinct(lh)' /\ IsDistinct(dhead)'
  BY Zenon DEF IInv, IsDistinct
<1>3. BootInv'
  BY BootFrame, Zenon
<1>4. CacheInv' /\ \A c \in Pinned : buf'[c] = buf[c]
  BY BreadCache, Zenon
<1>5. CommitInv'
  BY CommitFrame, Zenon DEF IInv, TypeOK, CommitPC, OpPC, Bread, Goto
<1>6. PhaseInv'
  BY <1>4, PhaseFrame, Zenon DEF IInv, TypeOK, CommitPC, Bread, Goto
<1> QED
  BY <1>1, <1>2, <1>3, <1>4, <1>5, <1>6, Zenon DEF IInv

LEMMA EndReadInv ==
  ASSUME NEW p \in Proc, IInv, EndRead(p) PROVE IInv'
<1> USE DEF EndRead, Running, disk, log
<1>1. TypeOK'
  BY HeldBuffer, Zenon DEF IInv, TypeOK, PC, brelse, Goto
<1>2. IsDistinct(lh)' /\ IsDistinct(dhead)'
  BY Zenon DEF IInv, IsDistinct
<1>3. BootInv'
  BY BootFrame, Zenon
<1>4. CacheInv'
  BY BrelseCache, Zenon
<1>5. CommitInv'
  BY CommitFrame, Zenon DEF IInv, TypeOK, CommitPC, OpPC, brelse, Goto
<1>6. PhaseInv'
  BY PhaseFrame, Zenon DEF IInv, TypeOK, CommitPC, brelse, Goto
<1> QED
  BY <1>1, <1>2, <1>3, <1>4, <1>5, <1>6, Zenon DEF IInv

LEMMA OpBreadInv ==
  ASSUME NEW p \in Proc, IInv, OpBread(p) PROVE IInv'
<1> PICK b \in Block : Bread(p, b, "clean")
  BY Zenon DEF OpBread
<1> USE DEF OpBread, Running, disk, log
<1>1. TypeOK'
  BY DEF IInv, TypeOK, PC, OpPC, Bread, Goto, Contents, Cached
<1>2. IsDistinct(lh)' /\ IsDistinct(dhead)'
  BY Zenon DEF IInv, IsDistinct
<1>3. BootInv'
  BY BootFrame, Zenon
<1>4. CacheInv' /\ \A c \in Pinned : buf'[c] = buf[c]
  BY BreadCache, Zenon
<1>5. CommitInv'
  BY CommitFrame, Zenon DEF IInv, TypeOK, CommitPC, OpPC, Bread, Goto
<1>6. PhaseInv'
  BY <1>4, PhaseFrame, Zenon DEF IInv, TypeOK, CommitPC, Bread, Goto
<1> QED
  BY <1>1, <1>2, <1>3, <1>4, <1>5, <1>6, Zenon DEF IInv

LEMMA OpBrelseInv ==
  ASSUME NEW p \in Proc, IInv, OpBrelse(p) PROVE IInv'
<1> USE DEF OpBrelse, Running, disk, log
<1>1. TypeOK'
  BY HeldBuffer, Zenon DEF IInv, TypeOK, PC, OpPC, brelse, Goto
<1>2. IsDistinct(lh)' /\ IsDistinct(dhead)'
  BY Zenon DEF IInv, IsDistinct
<1>3. BootInv'
  BY BootFrame, Zenon
<1>4. CacheInv'
  BY BrelseCache, Zenon
<1>5. CommitInv'
  BY CommitFrame, Zenon DEF IInv, TypeOK, CommitPC, OpPC, brelse, Goto
<1>6. PhaseInv'
  BY PhaseFrame, Zenon DEF IInv, TypeOK, CommitPC, brelse, Goto
<1> QED
  BY <1>1, <1>2, <1>3, <1>4, <1>5, <1>6, Zenon DEF IInv

\* While a call is in progress no commit is.
LEMMA ActiveNoCommit ==
  ASSUME Counting, IInv, boot = "up", NEW p \in Proc, pc[p] \in OpPC
  PROVE  /\ ~committing
         /\ \A q \in Proc : pc[q] \notin CommitPC
         /\ Pinned = Image(lh)
         /\ outstanding \in Nat /\ outstanding >= 1
<1>1. p \in Active
  BY Zenon DEF Active
<1>2. ~committing /\ \A q \in Proc : pc[q] \notin CommitPC
  BY <1>1, Zenon DEF IInv, CommitInv
<1>3. \A i : ~Installed(i)
  BY <1>2, Zenon DEF Installed, CommitPC
<1>4. Pinned = Image(lh)
  BY <1>3, Zenon DEF Pinned, Image
<1>5. IsFiniteSet(Active)
  BY LogAssumption, Zenon DEF Active, Counting
<1>6. Cardinality(Active) \in Nat /\ Cardinality(Active) # 0
  BY <1>1, <1>5, Zenon DEF Counting
<1>7. outstanding \in Nat /\ outstanding >= 1
  BY <1>6 DEF IInv, CommitInv
<1> QED
  BY <1>2, <1>4, <1>7, Zenon

LEMMA OpModifyInv ==
  ASSUME Counting, NEW p \in Proc, IInv, OpModify(p) PROVE IInv'
<1> USE DEF OpModify, Running, disk, log, Goto
<1>t. pc \in [Proc -> PC] /\ held \in [Proc -> Block \cup {NoBlock}]
      /\ buf \in [Block -> Val \cup {NoVal}]
  BY Zenon DEF IInv, TypeOK
<1>h. held[p] \in Block /\ held[p] \in Locked
  BY HeldBuffer, Zenon
<1>a. ~committing /\ \A q \in Proc : pc[q] \notin CommitPC
  BY ActiveNoCommit, Zenon DEF OpPC
<1>1. TypeOK'
  BY <1>h, SMTT(30) DEF IInv, TypeOK, PC, OpPC
<1>2. IsDistinct(lh)' /\ IsDistinct(dhead)'
  BY Zenon DEF IInv, IsDistinct
<1>3. BootInv'
  BY BootFrame, Zenon
<1>4. CacheInv'
  <2>1. Pinned' = Pinned
    BY <1>t, PinnedFrame, Zenon
  <2>2. Locked' = Locked
    BY Zenon DEF Locked
  <2>3. Dirty' = Dirty \cup {held[p]}
    BY <1>t, Zenon DEF Dirty
  <2>4. \A c \in Block \ {held[p]} : buf'[c] = buf[c]
    BY <1>t, <1>h, Zenon
  <2>5. buf'[held[p]] # NoVal
    BY <1>t, <1>h, LogAssumption, Zenon
  <2>6. \A q \in Proc :
          held'[q] # NoBlock <=> pc'[q] \in {"reading", "clean", "dirty", "logged"}
    BY <1>t, Zenon DEF IInv, CacheInv
  <2>7. Pinned \cup Locked \subseteq Block
    BY <1>t, SMTT(30) DEF IInv, TypeOK, Pinned, Locked
  <2>8. \A c \in Pinned' \cup Locked' : Cached(c)'
    BY <2>1, <2>2, <2>4, <2>5, <2>7, Zenon DEF IInv, CacheInv, Cached
  <2>9. \A c \in Block : Cached(c)' /\ c \notin Pinned' \cup Dirty' => buf'[c] = home'[c]
    BY <2>1, <2>3, <2>4, Zenon DEF IInv, CacheInv, Cached
  <2> QED
    BY <2>1, <2>2, <2>6, <2>8, <2>9, Zenon DEF IInv, CacheInv
<1>5. CommitInv'
  BY <1>t, CommitFrame, Zenon DEF CommitPC, OpPC
<1>6. PhaseInv'
  BY <1>t, <1>a, PhaseIdle, Zenon DEF CommitPC
<1> QED
  BY <1>1, <1>2, <1>3, <1>4, <1>5, <1>6, Zenon DEF IInv

LEMMA EvictInv ==
  ASSUME NEW b \in Block, IInv, Evict(b) PROVE IInv'
<1> USE DEF Evict, Running, disk, log, threads
<1>t. buf \in [Block -> Val \cup {NoVal}] /\ lh \in Seq(Block)
      /\ held \in [Proc -> Block \cup {NoBlock}]
  BY Zenon DEF IInv, TypeOK
<1>b. b \notin Pinned \cup Locked
  BY DEF IInv, CacheInv
<1>1. TypeOK'
  BY Zenon DEF IInv, TypeOK
<1>2. IsDistinct(lh)' /\ IsDistinct(dhead)'
  BY DEF IInv, IsDistinct
<1>3. BootInv'
  BY BootFrame, Zenon
<1>p. \A c \in Pinned : buf'[c] = buf[c]
  BY <1>b, <1>t, SMTT(30) DEF Pinned
<1>4. CacheInv'
  <2>1. Pinned' = Pinned /\ Locked' = Locked /\ Dirty' = Dirty
    BY PinnedFrame, Zenon DEF Locked, Dirty
  <2>2. \A c \in Pinned \cup Locked : buf'[c] = buf[c]
    BY <1>b, <1>p, <1>t DEF Locked
  <2>3. \A c \in Block : buf'[c] # NoVal => buf'[c] = buf[c]
    BY <1>t, Zenon
  <2>4. \A c \in Pinned' \cup Locked' : Cached(c)'
    BY <2>1, <2>2, Zenon DEF IInv, CacheInv, Cached
  <2>5. \A c \in Block : Cached(c)' /\ c \notin Pinned' \cup Dirty' => buf'[c] = home'[c]
    BY <2>1, <2>3, Zenon DEF IInv, CacheInv, Cached
  <2> QED
    BY <2>1, <2>4, <2>5, Zenon DEF IInv, CacheInv
<1>5. CommitInv'
  BY CommitFrame, Zenon
<1>6. PhaseInv'
  BY <1>p, PhaseFrame, Zenon DEF CommitPC
<1> QED
  BY <1>1, <1>2, <1>3, <1>4, <1>5, <1>6, Zenon DEF IInv

-----------------------------------------------------------------------------
(* begin_op, log_write, end_op                                             *)

LEMMA BeginOpInv ==
  ASSUME Counting, NEW p \in Proc, IInv, begin_op(p) PROVE IInv'
<1> USE DEF begin_op, Running, disk, cache, Goto
<1>t. pc \in [Proc -> PC] /\ outstanding \in Nat
  BY Zenon DEF IInv, TypeOK
<1>1. TypeOK'
  <2>1. outstanding' \in Nat
    BY <1>t
  <2>2. pc' \in [Proc -> PC]
    BY <1>t, Zenon DEF PC, OpPC
  <2> QED
    BY <2>1, <2>2, Zenon DEF IInv, TypeOK
<1>2. IsDistinct(lh)' /\ IsDistinct(dhead)'
  BY Zenon DEF IInv, IsDistinct
<1>3. BootInv'
  BY BootFrame, Zenon
<1>4. CacheInv'
  <2>1. Pinned' = Pinned
    BY <1>t, PinnedFrame, Zenon
  <2> QED
    BY <1>t, <2>1, CacheFrame, Zenon
<1>5. CommitInv'
  <2>1. CASE pc'[p] = "sleep"
    BY <1>t, <2>1, CommitFrame, Zenon DEF CommitPC, OpPC
  <2>2. CASE pc'[p] = "op"
    <3>1. ~committing /\ outstanding' = outstanding + 1 /\ pc' = [pc EXCEPT ![p] = "op"]
      BY <1>t, <2>2, Zenon
    <3>2. Active' = Active \cup {p} /\ p \notin Active
      BY <1>t, <3>1, Zenon DEF Active, OpPC
    <3>3. IsFiniteSet(Active)
      BY LogAssumption, Zenon DEF Active, Counting
    <3>4. Cardinality(Active') = Cardinality(Active) + 1
      BY <3>2, <3>3, Zenon DEF Counting
    <3>5. outstanding' = Cardinality(Active)'
      BY <3>1, <3>4, Zenon DEF IInv, CommitInv
    <3>6. \A q \in Proc : pc'[q] \in CommitPC <=> pc[q] \in CommitPC
      BY <1>t, <3>1, Zenon DEF CommitPC
    <3> QED
      BY <3>1, <3>5, <3>6, Zenon DEF IInv, CommitInv
  <2> QED
    BY <1>t, <2>1, <2>2, Zenon
<1>6. PhaseInv'
  BY <1>t, PhaseFrame, Zenon DEF CommitPC
<1> QED
  BY <1>1, <1>2, <1>3, <1>4, <1>5, <1>6, Zenon DEF IInv

\* log_write() adds one block at the end of the header.
LEMMA AppendBlock ==
  ASSUME NEW s \in Seq(Block), NEW e \in Block
  PROVE  /\ Image(Append(s, e)) = Image(s) \cup {e}
         /\ IsDistinct(s) /\ e \notin Image(s) => IsDistinct(Append(s, e))
<1>1. /\ Len(s) \in Nat /\ Len(Append(s, e)) = Len(s) + 1
      /\ Append(s, e)[Len(s) + 1] = e
      /\ \A i \in 1 .. Len(s) : Append(s, e)[i] = s[i]
  OBVIOUS
<1>2. ASSUME NEW i \in 1 .. Len(s) + 1 PROVE i \in 1 .. Len(s) \/ i = Len(s) + 1
  BY <1>1
<1>3. Image(Append(s, e)) \subseteq Image(s) \cup {e}
  BY <1>1, <1>2, Zenon DEF Image
<1>4. Image(s) \cup {e} \subseteq Image(Append(s, e))
  <2>1. 1 .. Len(s) \subseteq 1 .. Len(s) + 1 /\ Len(s) + 1 \in 1 .. Len(s) + 1
    BY <1>1
  <2> QED
    BY <1>1, <2>1, Zenon DEF Image
<1>5. ASSUME IsDistinct(s), e \notin Image(s) PROVE IsDistinct(Append(s, e))
  <2>1. \A i \in 1 .. Len(s) : s[i] # e
    BY <1>5, Zenon DEF Image
  <2> QED
    BY <1>1, <1>2, <1>5, <2>1, Zenon DEF IsDistinct
<1> QED
  BY <1>3, <1>4, <1>5, Zenon

LEMMA LogWriteInv ==
  ASSUME Counting, NEW p \in Proc, IInv, log_write(p) PROVE IInv'
<1>s. boot = "up" /\ pc[p] = "dirty"
  BY Zenon DEF log_write, Running
<1>t. pc \in [Proc -> PC] /\ held \in [Proc -> Block \cup {NoBlock}]
      /\ refcnt \in [Block -> Nat] /\ wrote \in [Proc -> SUBSET Block]
      /\ lh \in Seq(Block) /\ Len(lh) < NLOG
  BY Zenon DEF IInv, TypeOK
<1>h. /\ held[p] \in Block /\ held[p] \in Locked
      /\ Cached(held[p])
      /\ refcnt[held[p]] = (IF held[p] \in Pinned THEN 1 ELSE 0) + 1
  BY <1>s, HeldBuffer, Zenon
<1>a. /\ ~committing
      /\ \A q \in Proc : pc[q] \notin CommitPC
      /\ Pinned = Image(lh)
  BY <1>s, ActiveNoCommit, Zenon DEF OpPC
<1> USE DEF log_write, Running, disk
<1>b. BootInv'
  BY BootFrame, Zenon
<1>p. panicked' \in Panic
  BY Zenon DEF LogPanic, Panic
<1>d. IsDistinct(dhead)'
  BY Zenon DEF IInv, IsDistinct
<1>1. CASE LogPanic # "no"
  <2> USE <1>1
  <2>1. TypeOK'
    BY <1>p, Zenon DEF IInv, TypeOK
  <2>2. CacheInv'
    BY PinnedFrame, CacheFrame, Zenon
  <2>3. CommitInv' /\ PhaseInv'
    BY CommitFrame, PhaseFrame, Zenon
  <2> QED
    BY <2>1, <2>2, <2>3, <1>b, <1>d, Zenon DEF IInv, IsDistinct
<1>2. CASE LogPanic = "no"
  <2>l. /\ pc' = [pc EXCEPT ![p] = "logged"]
        /\ wrote' = [wrote EXCEPT ![p] = @ \cup {held[p]}]
        /\ Len(lh) < NLOG - 1
    <3>1. ~(Len(lh) >= NLOG - 1)
      BY <1>2, Zenon DEF LogPanic
    <3>2. Len(lh) < NLOG - 1
      BY <3>1, <1>t, LogAssumption, SMTT(30)
    <3> QED
      BY <1>2, <3>2, Zenon DEF Goto
  <2>1. CASE held[p] \in Image(lh) /\ UNCHANGED <<refcnt, lh>>
    <3> USE <2>1
    <3>1. TypeOK'
      BY <1>p, <2>l, <1>h, Zenon DEF IInv, TypeOK, PC, OpPC
    <3>2. CacheInv'
      <4>1. Pinned' = Pinned
        BY <1>t, <2>l, PinnedFrame, Zenon
      <4>2. Locked' = Locked
        BY Zenon DEF Locked
      <4>3. Dirty \subseteq Dirty' \cup Pinned'
        BY <1>t, <1>a, <2>l, <4>1, Zenon DEF Dirty
      <4>4. \A q \in Proc :
              held'[q] # NoBlock <=> pc'[q] \in {"reading", "clean", "dirty", "logged"}
        BY <1>t, <2>l, Zenon DEF IInv, CacheInv
      <4> QED
        BY <4>1, <4>2, <4>3, <4>4, Zenon DEF IInv, CacheInv, Cached
    <3>3. CommitInv'
      BY <1>t, <2>l, CommitFrame, Zenon DEF CommitPC, OpPC
    <3>4. PhaseInv'
      BY <1>t, <1>a, <2>l, PhaseIdle, Zenon DEF CommitPC
    <3> QED
      BY <3>1, <3>2, <3>3, <3>4, <1>b, <1>d, SMTT(30) DEF IInv, IsDistinct
  <2>2. CASE /\ held[p] \notin Image(lh)
             /\ lh' = Append(lh, held[p])
             /\ refcnt' = [refcnt EXCEPT ![held[p]] = @ + 1]
    <3>u. /\ boot = "up" /\ pc[p] = "dirty"
          /\ UNCHANGED <<home, dlog, dhead, buf, outstanding, committing, tail, boot, held>>
      BY SMTT(30)
    <3> HIDE DEF log_write
    <3>0. /\ lh' \in Seq(Block) /\ Len(lh') = Len(lh) + 1
          /\ lh'[Len(lh) + 1] = held[p]
          /\ \A i \in 1 .. Len(lh) : lh'[i] = lh[i]
      BY <1>t, <1>h, <2>2, SMTT(30)
    <3>1. TypeOK'
      <4>1. Len(lh') < NLOG
        BY <1>t, <2>l, <3>0, LogAssumption, SMTT(30)
      <4>2. refcnt' \in [Block -> Nat] /\ pc' \in [Proc -> PC]
            /\ wrote' \in [Proc -> SUBSET Block]
        BY <1>t, <1>h, <2>l, <2>2, SMTT(30) DEF PC, OpPC
      <4> QED
        BY <1>p, <3>u, <3>0, <4>1, <4>2, Zenon DEF IInv, TypeOK
    <3>2. IsDistinct(lh')
      BY <1>t, <1>h, <2>2, AppendBlock, Zenon DEF IInv
    <3>3. CacheInv'
      <4>0. \A q \in Proc : pc'[q] \notin CommitPC
        BY <1>t, <1>a, <2>l, Zenon DEF CommitPC
      <4>1. Pinned' = Pinned \cup {held[p]}
        <5>1. \A i : ~Installed(i)'
          BY <4>0, Zenon DEF Installed, CommitPC
        <5>2. Pinned' = Image(lh')
          BY <5>1, Zenon DEF Pinned, Image
        <5>3. Image(lh') = Image(lh) \cup {held[p]}
          BY <1>t, <1>h, <2>2, AppendBlock, Zenon
        <5> QED
          BY <5>2, <5>3, <1>a, Zenon
      <4>2. Locked' = Locked
        BY <3>u, Zenon DEF Locked
      <4>3. Dirty \subseteq Dirty' \cup {held[p]}
        BY <1>t, <2>l, <3>u, Zenon DEF Dirty
      <4>4. \A q \in Proc :
              held'[q] # NoBlock <=> pc'[q] \in {"reading", "clean", "dirty", "logged"}
        <5>1. \A q \in Proc :
                held[q] # NoBlock <=> pc[q] \in {"reading", "clean", "dirty", "logged"}
          BY <3>u, Zenon DEF IInv, CacheInv
        <5> QED
          BY <5>1, <1>t, <2>l, <3>u, Zenon
      <4>5. \A c \in Block :
              refcnt'[c] = (IF c \in Pinned' THEN 1 ELSE 0) + (IF c \in Locked' THEN 1 ELSE 0)
        <5>1. \A c \in Block :
                refcnt[c] = (IF c \in Pinned THEN 1 ELSE 0) + (IF c \in Locked THEN 1 ELSE 0)
          BY <3>u, Zenon DEF IInv, CacheInv
        <5>2. /\ held[p] \notin Pinned
              /\ refcnt'[held[p]] = refcnt[held[p]] + 1
              /\ \A c \in Block \ {held[p]} : refcnt'[c] = refcnt[c]
          BY <1>t, <1>h, <1>a, <2>2, Zenon
        <5>3. ASSUME NEW c \in Block, c = held[p]
              PROVE  refcnt'[c] = (IF c \in Pinned' THEN 1 ELSE 0)
                                  + (IF c \in Locked' THEN 1 ELSE 0)
          BY <5>2, <5>3, <1>h, <4>1, <4>2
        <5>4. ASSUME NEW c \in Block, c # held[p]
              PROVE  refcnt'[c] = (IF c \in Pinned' THEN 1 ELSE 0)
                                  + (IF c \in Locked' THEN 1 ELSE 0)
          <6>1. /\ refcnt'[c] = refcnt[c]
                /\ c \in Pinned' <=> c \in Pinned
                /\ c \in Locked' <=> c \in Locked
            BY <5>2, <5>4, <4>1, <4>2, Zenon
          <6> QED
            BY <5>1, <6>1, Zenon
        <5> QED
          BY <5>3, <5>4, Zenon
      <4>6. \A c \in Pinned' \cup Locked' : Cached(c)'
        BY <1>h, <3>u, <4>1, <4>2, Zenon DEF IInv, CacheInv, Cached
      <4> QED
        <5>1. \A b \in Block : Cached(b) /\ b \notin Pinned \cup Dirty => buf[b] = home[b]
          BY <3>u, Zenon DEF IInv, CacheInv
        <5>2. \A b \in Block :
                Cached(b)' /\ b \notin Pinned' \cup Dirty' => buf'[b] = home'[b]
          BY <5>1, <3>u, <4>1, <4>3, Zenon DEF Cached
        <5>3. \A q, r \in Proc : held'[q] = held'[r] /\ held'[q] # NoBlock => q = r
          BY <3>u, Zenon DEF IInv, CacheInv
        <5> QED
          BY <4>4, <4>5, <4>6, <5>2, <5>3, Zenon DEF CacheInv
    <3>4. CommitInv'
      BY <1>t, <2>l, <3>u, CommitFrame, Zenon DEF CommitPC, OpPC
    <3>5. PhaseInv'
      BY <1>t, <1>a, <2>l, <3>u, PhaseIdle, Zenon DEF CommitPC
    <3> QED
      BY <3>1, <3>2, <3>3, <3>4, <3>5, <1>b, <1>d, Zenon DEF IInv
  <2> QED
    BY <1>2, <2>1, <2>2, Zenon
<1> QED
  BY <1>1, <1>2, Zenon

LEMMA WakeupOnlySleepers ==
  ASSUME NEW f \in [Proc -> PC]
  PROVE  /\ Wakeup(f) \in [Proc -> PC]
         /\ \A q \in Proc : Wakeup(f)[q] # f[q] => f[q] = "sleep" /\ Wakeup(f)[q] = "begin_op"
BY Zenon DEF Wakeup, PC

LEMMA EndOpInv ==
  ASSUME Counting, NEW p \in Proc, IInv, end_op(p) PROVE IInv'
<1> USE DEF end_op, Running, disk, cache, Goto
<1>t. pc \in [Proc -> PC] /\ wrote \in [Proc -> SUBSET Block]
      /\ committing \in BOOLEAN
  BY Zenon DEF IInv, TypeOK
<1>a. /\ ~committing
      /\ \A q \in Proc : pc[q] \notin CommitPC
      /\ outstanding \in Nat /\ outstanding >= 1
  BY ActiveNoCommit, Zenon DEF OpPC
<1>w. /\ pc' \in [Proc -> PC]
      /\ \A q \in Proc \ {p} : pc'[q] # pc[q] => pc[q] = "sleep" /\ pc'[q] = "begin_op"
      /\ pc'[p] = IF outstanding = 1 THEN "commit" ELSE "idle"
  <2>1. CASE outstanding = 1
    BY <2>1, <1>t, Zenon DEF PC, CommitPC
  <2>2. CASE outstanding # 1
    <3> DEFINE f == [pc EXCEPT ![p] = "idle"]
    <3>1. f \in [Proc -> PC] /\ f[p] = "idle" /\ \A q \in Proc \ {p} : f[q] = pc[q]
      BY <1>t, Zenon DEF PC
    <3>2. pc' = Wakeup(f)
      BY <2>2, Zenon
    <3> HIDE DEF f
    <3> QED
      BY <3>1, <3>2, <2>2, WakeupOnlySleepers
  <2> QED
    BY <2>1, <2>2, Zenon
<1>c. committing' \in BOOLEAN /\ (committing' <=> outstanding = 1)
  <2>1. CASE outstanding = 1
    <3>1. committing'
      BY <2>1, Zenon
    <3> QED
      BY <3>1, <2>1, Zenon
  <2>2. CASE outstanding # 1
    BY <2>2, <1>t, <1>a, SMTT(30)
  <2> QED
    BY <2>1, <2>2, Zenon
<1>1. TypeOK'
  <2>1. outstanding' \in Nat
    BY <1>a
  <2>2. wrote' \in [Proc -> SUBSET Block]
    BY <1>t, Zenon
  <2>3. panicked' \in Panic
    BY Zenon DEF Panic
  <2> QED
    BY <2>1, <2>2, <2>3, <1>w, <1>c, Zenon DEF IInv, TypeOK
<1>2. IsDistinct(lh)' /\ IsDistinct(dhead)'
  BY DEF IInv, IsDistinct
<1>3. BootInv'
  BY BootFrame, Zenon
<1>4. CacheInv'
  <2>1. Pinned' = Pinned
    BY <1>w, PinnedFrame, Zenon
  <2> QED
    BY <1>w, <2>1, CacheFrame, Zenon
<1>5. CommitInv'
  <2>1. Active' = Active \ {p} /\ p \in Active
    BY <1>w, Zenon DEF Active, OpPC
  <2>2. IsFiniteSet(Active)
    BY LogAssumption, Zenon DEF Active, Counting
  <2>3. Cardinality(Active') = Cardinality(Active) - 1 /\ IsFiniteSet(Active')
    BY <2>1, <2>2, Zenon DEF Counting
  <2>4. outstanding' = Cardinality(Active)'
    BY <2>3, Zenon DEF IInv, CommitInv
  <2>5. outstanding = 1 => Active' = {}
    BY <2>3, <2>4, SMTT(30) DEF Counting
  <2>6. \A q \in Proc : pc'[q] \in CommitPC <=> q = p /\ outstanding = 1
    BY <1>w, <1>a, Zenon DEF CommitPC
  <2> QED
    BY <2>4, <2>5, <2>6, <1>c, Zenon DEF CommitInv
<1>6. PhaseInv'
  BY <1>w, <1>a, PhaseIdle, Zenon DEF CommitPC
<1> QED
  BY <1>1, <1>2, <1>3, <1>4, <1>5, <1>6, Zenon DEF IInv

-----------------------------------------------------------------------------
(* commit()                                                                *)

LEMMA Committer ==
  ASSUME IInv, boot = "up", NEW p \in Proc, pc[p] \in CommitPC
  PROVE  /\ committing /\ Active = {} /\ Dirty = {}
         /\ \A q \in Proc : pc[q] \in CommitPC => q = p
<1>1. committing /\ Active = {} /\ \A q \in Proc : pc[q] \in CommitPC => q = p
  BY Zenon DEF IInv, CommitInv
<1>2. \A q \in Proc : pc[q] # "dirty"
  BY <1>1, Zenon DEF Active, OpPC
<1> QED
  BY <1>1, <1>2, Zenon DEF Dirty

LEMMA AllPinned ==
  ASSUME \A q \in Proc : pc[q] \notin {"install_trans", "clear"}
  PROVE  Pinned = Image(lh)
<1>1. \A i : ~Installed(i)
  BY Zenon DEF Installed
<1> QED
  BY <1>1, Zenon DEF Pinned, Image

LEMMA AllPinnedNext ==
  ASSUME \A q \in Proc : pc'[q] \notin {"install_trans", "clear"}
  PROVE  Pinned' = Image(lh')
<1>1. \A i : ~Installed(i)'
  BY Zenon DEF Installed
<1> QED
  BY <1>1, Zenon DEF Pinned, Image

LEMMA CommitInvariant ==
  ASSUME NEW p \in Proc, IInv, commit(p) PROVE IInv'
<1> USE DEF commit, Running, disk, cache, Goto
<1>t. pc \in [Proc -> PC] /\ lh \in Seq(Block)
  BY Zenon DEF IInv, TypeOK
<1>a. \A q \in Proc : pc[q] \in CommitPC => q = p
  BY Committer, Zenon DEF CommitPC
<1>w. /\ pc' \in [Proc -> PC]
      /\ \A q \in Proc \ {p} : pc'[q] = pc[q]
      /\ pc'[p] = IF Len(lh) > 0 THEN "write_log" ELSE "end_commit"
  BY <1>t, Zenon DEF PC, CommitPC
<1>1. TypeOK'
  BY <1>w DEF IInv, TypeOK
<1>2. IsDistinct(lh)' /\ IsDistinct(dhead)'
  BY Zenon DEF IInv, IsDistinct
<1>3. BootInv'
  BY BootFrame, Zenon
<1>4. CacheInv'
  <2>1. \A q \in Proc : pc[q] \notin {"install_trans", "clear"}
                        /\ pc'[q] \notin {"install_trans", "clear"}
    BY <1>a, <1>w, Zenon DEF CommitPC
  <2>2. Pinned' = Pinned
    BY <2>1, AllPinned, AllPinnedNext, Zenon
  <2> QED
    BY <1>w, <2>2, CacheFrame, Zenon
<1>5. CommitInv'
  BY <1>w, CommitFrame, Zenon DEF CommitPC, OpPC
<1>6. PhaseInv'
  <2>1. dhead = <<>>
    BY <1>a, Zenon DEF IInv, PhaseInv, CommitPC
  <2>2. Len(lh) = 0 => lh = <<>>
    BY <1>t
  <2>3. \A q \in Proc \ {p} : pc'[q] \notin CommitPC
    BY <1>a, <1>w, Zenon
  <2>4. Len(lh) \in Nat
    BY <1>t
  <2> QED
    BY <1>w, <2>1, <2>2, <2>3, <2>4, SMTT(60) DEF PhaseInv, CommitPC
<1> QED
  BY <1>1, <1>2, <1>3, <1>4, <1>5, <1>6, Zenon DEF IInv

LEMMA WriteLogInv ==
  ASSUME NEW p \in Proc, IInv, write_log(p) PROVE IInv'
<1> USE DEF write_log, Running, Goto
<1>t. /\ pc \in [Proc -> PC] /\ lh \in Seq(Block) /\ Len(lh) < NLOG
      /\ dlog \in [Slot -> Val] /\ buf \in [Block -> Val \cup {NoVal}]
      /\ tail \in Nat \ {0}
  BY Zenon DEF IInv, TypeOK
<1>a. \A q \in Proc : pc[q] \in CommitPC => q = p
  BY Committer, Zenon DEF CommitPC
<1>w. /\ pc' \in [Proc -> PC]
      /\ \A q \in Proc \ {p} : pc'[q] = pc[q]
      /\ pc'[p] = IF tail < Len(lh) THEN "write_log" ELSE "write_head"
  BY <1>t, Zenon DEF PC, CommitPC
<1>i. /\ tail \in 1 .. Len(lh) /\ tail \in Slot
      /\ \A i \in 1 .. tail - 1 : dlog[i] = buf[lh[i]]
  BY <1>t, LogAssumption DEF IInv, PhaseInv, Slot
<1>b. lh[tail] \in Block /\ Cached(lh[tail])
  BY <1>t, <1>i, ToInstall
<1>u. buf' = buf /\ Contents(lh[tail]) = buf[lh[tail]] /\ buf[lh[tail]] \in Val
  BY <1>t, <1>b, Zenon DEF Contents, Cached
<1>d. /\ dlog' \in [Slot -> Val] /\ dlog'[tail] = buf[lh[tail]]
      /\ \A i \in Slot \ {tail} : dlog'[i] = dlog[i]
  BY <1>t, <1>i, <1>u, Zenon
<1>1. TypeOK'
  <2>1. tail' \in Nat \ {0}
    BY <1>t
  <2> QED
    BY <1>w, <1>u, <1>d, <2>1, Zenon DEF IInv, TypeOK
<1>2. IsDistinct(lh)' /\ IsDistinct(dhead)'
  BY Zenon DEF IInv, IsDistinct
<1>3. BootInv'
  BY BootFrame, Zenon
<1>n. \A q \in Proc : pc[q] \notin {"install_trans", "clear"}
                      /\ pc'[q] \notin {"install_trans", "clear"}
  BY <1>a, <1>w, Zenon DEF CommitPC
<1>4. CacheInv'
  <2>1. Pinned' = Pinned
    BY <1>n, AllPinned, AllPinnedNext, Zenon
  <2> QED
    BY <1>w, <1>u, <2>1, CacheFrame, Zenon
<1>5. CommitInv'
  BY <1>w, CommitFrame, Zenon DEF CommitPC, OpPC
<1>6. PhaseInv'
  <2>1. dhead = <<>>
    BY <1>n, Zenon DEF IInv, PhaseInv
  <2>2. \A q \in Proc \ {p} : pc'[q] \notin CommitPC
    BY <1>a, <1>w, Zenon
  <2>3. \A i \in 1 .. tail : dlog'[i] = buf[lh[i]]
    <3>1. \A i \in 1 .. tail : i \in Slot /\ (i = tail \/ i \in 1 .. tail - 1)
      BY <1>t, <1>i, LogAssumption, SMTT(60) DEF Slot
    <3> QED
      BY <3>1, <1>i, <1>d, Zenon
  <2>4. CASE tail < Len(lh)
    <3>1. tail' = tail + 1 /\ tail' <= Len(lh) /\ tail' - 1 = tail
      BY <2>4, <1>t, SMTT(30)
    <3> QED
      BY <3>1, <2>1, <2>2, <2>3, <2>4, <1>w, <1>u DEF PhaseInv, CommitPC
  <2>5. CASE ~(tail < Len(lh))
    <3>1. tail' = 1 /\ tail = Len(lh) /\ Len(lh) > 0
      BY <2>5, <1>t, <1>i
    <3> QED
      BY <3>1, <2>1, <2>2, <2>3, <2>5, <1>w, <1>u, SMTT(60) DEF PhaseInv, CommitPC
  <2> QED
    BY <2>4, <2>5, Zenon
<1> QED
  BY <1>1, <1>2, <1>3, <1>4, <1>5, <1>6, Zenon DEF IInv

LEMMA WriteHeadInv ==
  ASSUME NEW p \in Proc, IInv, write_head(p) PROVE IInv'
<1> USE DEF write_head, Running, Goto, cache, log
<1>t. /\ pc \in [Proc -> PC] /\ lh \in Seq(Block) /\ Len(lh) < NLOG
  BY Zenon DEF IInv, TypeOK
<1>a. \A q \in Proc : pc[q] \in CommitPC => q = p
  BY Committer, Zenon DEF CommitPC
<1>w. /\ pc' \in [Proc -> PC]
      /\ \A q \in Proc \ {p} : pc'[q] = pc[q]
      /\ pc'[p] = "install_trans"
  BY <1>t, Zenon DEF PC, CommitPC
<1>i. /\ tail = 1 /\ Len(lh) > 0
      /\ \A i \in 1 .. Len(lh) : dlog[i] = buf[lh[i]]
  BY Zenon DEF IInv, PhaseInv
<1>1. TypeOK'
  BY <1>w, <1>t, Zenon DEF IInv, TypeOK
<1>2. IsDistinct(lh)' /\ IsDistinct(dhead)'
  BY Zenon DEF IInv, IsDistinct
<1>3. BootInv'
  BY BootFrame, Zenon
<1>n. \A q \in Proc : pc[q] \notin {"install_trans", "clear"}
  BY <1>a, Zenon DEF CommitPC
<1>4. CacheInv'
  <2>1. \A i \in 1 .. Len(lh) : ~Installed(i)'
    BY <1>w, <1>a, <1>i, <1>t, SMTT(30) DEF Installed, CommitPC
  <2>2. Pinned' = Image(lh)
    BY <2>1, Zenon DEF Pinned, Image
  <2>3. Pinned' = Pinned
    BY <2>2, <1>n, AllPinned, Zenon
  <2> QED
    BY <1>w, <2>3, CacheFrame, Zenon
<1>5. CommitInv'
  BY <1>w, CommitFrame, Zenon DEF CommitPC, OpPC
<1>6. PhaseInv'
  <2>1. \A q \in Proc \ {p} : pc'[q] \notin CommitPC
    BY <1>a, <1>w, Zenon
  <2>2. tail <= Len(lh) /\ \A i \in 1 .. Len(lh) : ~(i < tail)
    BY <1>i, <1>t
  <2> QED
    BY <2>1, <2>2, <1>i, <1>w, Zenon DEF PhaseInv, CommitPC
<1> QED
  BY <1>1, <1>2, <1>3, <1>4, <1>5, <1>6, Zenon DEF IInv

LEMMA InstallTransInv ==
  ASSUME NEW p \in Proc, IInv, install_trans(p) PROVE IInv'
<1> USE DEF install_trans, Running, Goto
<1> DEFINE c == lh[tail]
<1>t. /\ pc \in [Proc -> PC] /\ lh \in Seq(Block) /\ Len(lh) < NLOG
      /\ dlog \in [Slot -> Val] /\ buf \in [Block -> Val \cup {NoVal}]
      /\ home \in [Block -> Val] /\ refcnt \in [Block -> Nat]
      /\ tail \in Nat \ {0} /\ held \in [Proc -> Block \cup {NoBlock}]
  BY Zenon DEF IInv, TypeOK
<1>a. Dirty = {} /\ \A q \in Proc : pc[q] \in CommitPC => q = p
  BY Committer, Zenon DEF CommitPC
<1>w. /\ pc' \in [Proc -> PC]
      /\ \A q \in Proc \ {p} : pc'[q] = pc[q]
      /\ pc'[p] = IF tail < Len(lh) THEN "install_trans" ELSE "clear"
  BY <1>t, Zenon DEF PC, CommitPC
<1>i. /\ tail \in 1 .. Len(lh) /\ tail \in Slot /\ dhead = lh
      /\ \A i \in 1 .. Len(lh) : dlog[i] = IF i < tail THEN home[lh[i]] ELSE buf[lh[i]]
  BY <1>t, LogAssumption, SMTT(30) DEF IInv, PhaseInv, Slot
<1>c. c \in Block /\ c \in Pinned /\ Cached(c) /\ dlog[tail] = buf[c] /\ buf[c] \in Val
  BY <1>t, <1>i, ToInstall, SMTT(60)
<1>u. c \notin Locked /\ refcnt[c] = 1
  <2>1. c \notin Locked
    BY Zenon DEF Locked, Unlocked
  <2> QED
    BY <2>1, <1>c, SMTT(60) DEF IInv, CacheInv
<1>x. /\ buf' = buf
      /\ home' \in [Block -> Val] /\ home'[c] = buf[c]
      /\ \A b \in Block \ {c} : home'[b] = home[b]
      /\ refcnt' \in [Block -> Nat] /\ refcnt'[c] = 0
      /\ \A b \in Block \ {c} : refcnt'[b] = refcnt[b]
  BY <1>t, <1>c, <1>u, SMTT(30)
<1>p. Pinned = {lh[i] : i \in {j \in 1 .. Len(lh) : tail <= j}}
  <2>1. \A i \in 1 .. Len(lh) : ~Installed(i) <=> tail <= i
    BY <1>a, <1>t, SMTT(30) DEF Installed, CommitPC
  <2> QED
    BY <2>1, Zenon DEF Pinned
<1>q. Pinned' = {lh[i] : i \in {j \in 1 .. Len(lh) : tail < j}}
  <2>1. \A i \in 1 .. Len(lh) : ~Installed(i)' <=> tail < i
    <3>1. CASE tail < Len(lh)
      <4>1. tail' = tail + 1
        BY <3>1, Zenon
      <4> QED
        BY <3>1, <4>1, <1>a, <1>w, <1>t DEF Installed, CommitPC
    <3>2. CASE ~(tail < Len(lh))
      BY <3>2, <1>w, <1>t, SMTT(30) DEF Installed
    <3> QED
      BY <3>1, <3>2, Zenon
  <2> QED
    BY <2>1, Zenon DEF Pinned
<1>r. Pinned' = Pinned \ {c}
  <2>1. \A i \in 1 .. Len(lh) : tail < i <=> tail <= i /\ lh[i] # c
    BY <1>i, <1>t, SMTT(30) DEF IInv, IsDistinct
  <2> QED
    BY <2>1, <1>p, <1>q, Zenon
<1>1. TypeOK'
  <2>1. tail' \in Nat \ {0}
    BY <1>t
  <2> QED
    BY <1>w, <1>x, <2>1, SMTT(60) DEF IInv, TypeOK
<1>2. IsDistinct(lh)' /\ IsDistinct(dhead)'
  BY Zenon DEF IInv, IsDistinct
<1>3. BootInv'
  BY BootFrame, Zenon
<1>4. CacheInv'
  <2>1. Locked' = Locked
    BY Zenon DEF Locked
  <2>2. Dirty' = {}
    BY <1>a, <1>w, SMTT(30) DEF Dirty
  <2>3. \A q \in Proc :
          held'[q] # NoBlock <=> pc'[q] \in {"reading", "clean", "dirty", "logged"}
    BY <1>w, Zenon DEF IInv, CacheInv
  <2>4. \A b \in Block :
          refcnt'[b] = (IF b \in Pinned' THEN 1 ELSE 0) + (IF b \in Locked' THEN 1 ELSE 0)
    BY <1>r, <1>u, <1>x, <2>1, SMTT(60) DEF IInv, CacheInv
  <2>5. \A b \in Pinned' \cup Locked' : Cached(b)'
    BY <1>r, <1>x, <2>1, Zenon DEF IInv, CacheInv, Cached
  <2>6. \A b \in Block : Cached(b)' /\ b \notin Pinned' \cup Dirty' => buf'[b] = home'[b]
    BY <1>a, <1>r, <1>x, <2>2, Zenon DEF IInv, CacheInv, Cached
  <2>7. \A q, r \in Proc : held'[q] = held'[r] /\ held'[q] # NoBlock => q = r
    BY Zenon DEF IInv, CacheInv
  <2> QED
    BY <2>3, <2>4, <2>5, <2>6, <2>7, Zenon DEF CacheInv
<1>5. CommitInv'
  BY <1>w, CommitFrame, Zenon DEF CommitPC, OpPC
<1>6. PhaseInv'
  <2>1. \A q \in Proc \ {p} : pc'[q] \notin CommitPC
    BY <1>a, <1>w, Zenon
  <2>2. \A i \in 1 .. Len(lh) : i # tail => home'[lh[i]] = home[lh[i]]
    BY <1>i, <1>x, <1>t, SMTT(60) DEF IInv, IsDistinct
  <2>3. \A i \in 1 .. Len(lh) :
          dlog[i] = IF i < tail + 1 THEN home'[lh[i]] ELSE buf[lh[i]]
    BY <2>2, <1>i, <1>c, <1>x, <1>t, SMTT(60)
  <2>4. CASE tail < Len(lh)
    <3>1. tail' = tail + 1 /\ tail' <= Len(lh)
      BY <2>4, <1>t, SMTT(30)
    <3> QED
      BY <3>1, <2>1, <2>3, <2>4, <1>i, <1>w, <1>x, SMTT(30) DEF PhaseInv, CommitPC
  <2>5. CASE ~(tail < Len(lh))
    <3>1. \A i \in 1 .. Len(lh) : i < tail + 1
      BY <2>5, <1>t
    <3> QED
      BY <3>1, <2>1, <2>3, <2>5, <1>i, <1>w, Zenon DEF PhaseInv, CommitPC
  <2> QED
    BY <2>4, <2>5, Zenon
<1> QED
  BY <1>1, <1>2, <1>3, <1>4, <1>5, <1>6, Zenon DEF IInv

LEMMA ClearInv ==
  ASSUME NEW p \in Proc, IInv, clear(p) PROVE IInv'
<1> USE DEF clear, Running, Goto, cache
<1>t. pc \in [Proc -> PC] /\ lh \in Seq(Block)
  BY Zenon DEF IInv, TypeOK
<1>a. \A q \in Proc : pc[q] \in CommitPC => q = p
  BY Committer, Zenon DEF CommitPC
<1>w. /\ pc' \in [Proc -> PC]
      /\ \A q \in Proc \ {p} : pc'[q] = pc[q]
      /\ pc'[p] = "end_commit"
  BY <1>t, Zenon DEF PC, CommitPC
<1>l. /\ lh' = <<>> /\ dhead' = <<>> /\ Len(lh') = 0
      /\ lh' \in Seq(Block) /\ dhead' \in Seq(Block)
  BY SMTT(30)
<1>1. TypeOK'
  BY <1>w, <1>l, LogAssumption, SMTT(60) DEF IInv, TypeOK
<1>2. IsDistinct(lh)' /\ IsDistinct(dhead)'
  BY <1>l DEF IsDistinct
<1>3. BootInv'
  BY BootFrame, Zenon
<1>4. CacheInv'
  <2>1. Pinned = {}
    BY Zenon DEF Pinned, Installed
  <2>2. Pinned' = {}
    BY <1>l DEF Pinned
  <2> QED
    BY <1>w, <2>1, <2>2, CacheFrame, Zenon
<1>5. CommitInv'
  BY <1>w, CommitFrame, Zenon DEF CommitPC, OpPC
<1>6. PhaseInv'
  <2>1. \A q \in Proc \ {p} : pc'[q] \notin CommitPC
    BY <1>a, <1>w, Zenon
  <2> QED
    BY <2>1, <1>l, <1>w, Zenon DEF PhaseInv, CommitPC
<1> QED
  BY <1>1, <1>2, <1>3, <1>4, <1>5, <1>6, Zenon DEF IInv

LEMMA EndCommitInv ==
  ASSUME NEW p \in Proc, IInv, end_commit(p) PROVE IInv'
<1> USE DEF end_commit, Running, disk, cache
<1>t. pc \in [Proc -> PC]
  BY Zenon DEF IInv, TypeOK
<1>a. Active = {} /\ \A q \in Proc : pc[q] \in CommitPC => q = p
  BY Committer, Zenon DEF CommitPC
<1>w. /\ pc' \in [Proc -> PC]
      /\ \A q \in Proc \ {p} : pc'[q] # pc[q] => pc[q] = "sleep" /\ pc'[q] = "begin_op"
      /\ pc'[p] = "idle"
  <2> DEFINE f == [pc EXCEPT ![p] = "idle"]
  <2>1. f \in [Proc -> PC] /\ f[p] = "idle" /\ \A q \in Proc \ {p} : f[q] = pc[q]
    BY <1>t, Zenon DEF PC
  <2>2. pc' = Wakeup(f)
    BY Zenon
  <2> HIDE DEF f
  <2>3. /\ Wakeup(f) \in [Proc -> PC]
        /\ \A q \in Proc : Wakeup(f)[q] # f[q] =>
                             f[q] = "sleep" /\ Wakeup(f)[q] = "begin_op"
    BY <2>1, WakeupOnlySleepers, Zenon
  <2> QED
    BY <2>1, <2>2, <2>3, Zenon
<1>c. committing' \in BOOLEAN /\ ~committing'
  BY Zenon
<1>1. TypeOK'
  BY <1>w, <1>c, Zenon DEF IInv, TypeOK
<1>2. IsDistinct(lh)' /\ IsDistinct(dhead)'
  BY Zenon DEF IInv, IsDistinct
<1>3. BootInv'
  BY BootFrame, Zenon
<1>n. \A q \in Proc : pc[q] \notin {"install_trans", "clear"} /\ pc'[q] \notin CommitPC
  BY <1>a, <1>w, Zenon DEF CommitPC
<1>4. CacheInv'
  <2>1. Pinned' = Pinned
    BY <1>n, PinnedFrame, Zenon DEF CommitPC
  <2> QED
    BY <1>w, <2>1, CacheFrame, Zenon
<1>5. CommitInv'
  <2>1. Active' = Active
    BY <1>w, Zenon DEF Active, OpPC
  <2> QED
    BY <2>1, <1>n, <1>c, Zenon DEF IInv, CommitInv
<1>6. PhaseInv'
  BY <1>n, PhaseIdle, Zenon
<1> QED
  BY <1>1, <1>2, <1>3, <1>4, <1>5, <1>6, Zenon DEF IInv

-----------------------------------------------------------------------------
(* Crash and recovery                                                      *)

LEMMA CrashInv ==
  ASSUME IInv, Crash PROVE IInv'
<1> USE DEF Crash
<1>l. lh' = <<>> /\ lh' \in Seq(Block) /\ Len(lh') = 0
  OBVIOUS
<1>c. committing' \in BOOLEAN /\ ~committing'
  BY Zenon
<1>h. home' \in [Block -> Val] /\ dlog' \in [Slot -> Val]
  <2>1. home \in [Block -> Val] /\ dlog \in [Slot -> Val]
    BY Zenon DEF IInv, TypeOK
  <2> QED
    BY <2>1, Zenon
<1>p. pc' \in [Proc -> PC] /\ boot' \in Boot /\ panicked' \in Panic
  BY Zenon DEF PC, Boot, Panic
<1>1. TypeOK'
  BY <1>l, <1>c, <1>h, <1>p, LogAssumption, SMTT(30) DEF IInv, TypeOK
<1>2. IsDistinct(lh)' /\ IsDistinct(dhead)'
  BY <1>l DEF IInv, IsDistinct
<1>3. BootInv'
  BY <1>l, <1>c, Zenon DEF BootInv, Cached
<1>4. CacheInv' /\ CommitInv' /\ PhaseInv'
  BY Zenon DEF CacheInv, CommitInv, PhaseInv
<1> QED
  BY <1>1, <1>2, <1>3, <1>4, Zenon DEF IInv

LEMMA ReadHeadInv ==
  ASSUME IInv, read_head PROVE IInv'
<1> USE DEF read_head, disk, cache, threads
<1>1. TypeOK'
  BY Zenon DEF IInv, TypeOK, Boot
<1>2. IsDistinct(lh)' /\ IsDistinct(dhead)'
  BY Zenon DEF IInv, IsDistinct
<1>3. BootInv'
  <2>1. dhead \in Seq(Block)
    BY Zenon DEF IInv, TypeOK
  <2>2. tail = 1
    BY Zenon DEF IInv, BootInv
  <2>3. \A i \in 1 .. Len(dhead) : ~(i < tail) /\ boot' # "clear"
    BY <2>1, <2>2
  <2>4. boot' = "install_trans" => tail <= Len(dhead)
    BY <2>1, <2>2, SMTT(30)
  <2> QED
    BY <2>2, <2>3, <2>4, Zenon DEF IInv, BootInv, Cached
<1>4. CacheInv' /\ CommitInv' /\ PhaseInv'
  BY Zenon DEF CacheInv, CommitInv, PhaseInv
<1> QED
  BY <1>1, <1>2, <1>3, <1>4, Zenon DEF IInv

LEMMA RecoverInstallInv ==
  ASSUME IInv, recover_install PROVE IInv'
<1> USE DEF recover_install, threads
<1> DEFINE c == lh[tail]
<1>t. /\ lh \in Seq(Block) /\ Len(lh) < NLOG
      /\ dlog \in [Slot -> Val] /\ buf \in [Block -> Val \cup {NoVal}]
      /\ home \in [Block -> Val] /\ tail \in Nat \ {0}
  BY Zenon DEF IInv, TypeOK
<1>i. /\ tail \in 1 .. Len(lh) /\ tail \in Slot /\ dhead = lh
      /\ \A i \in 1 .. Len(lh) : i < tail => home[lh[i]] = dlog[i]
      /\ \A b \in Block : Cached(b) => buf[b] = home[b]
  BY <1>t, LogAssumption, SMTT(60) DEF IInv, BootInv, Slot
<1>c. c \in Block /\ dlog[tail] \in Val
  BY <1>t, <1>i, SMTT(30)
<1>x. /\ home' \in [Block -> Val] /\ home'[c] = dlog[tail]
      /\ \A b \in Block \ {c} : home'[b] = home[b]
      /\ buf' \in [Block -> Val \cup {NoVal}] /\ buf'[c] = dlog[tail]
      /\ \A b \in Block \ {c} : buf'[b] = buf[b]
  BY <1>t, <1>c, Zenon
<1>1. TypeOK'
  <2>1. tail' \in Nat \ {0} /\ boot' \in Boot
    BY <1>t DEF Boot
  <2> QED
    BY <1>x, <2>1, Zenon DEF IInv, TypeOK
<1>2. IsDistinct(lh)' /\ IsDistinct(dhead)'
  BY Zenon DEF IInv, IsDistinct
<1>3. BootInv'
  <2>1. \A i \in 1 .. Len(lh) : i # tail => home'[lh[i]] = home[lh[i]]
    BY <1>i, <1>x, <1>t, SMTT(30) DEF IInv, IsDistinct
  <2>2. \A i \in 1 .. Len(lh) : i < tail + 1 => home'[lh[i]] = dlog[i]
    BY <2>1, <1>i, <1>x, <1>t, SMTT(30)
  <2>3. \A b \in Block : Cached(b)' => buf'[b] = home'[b]
    BY <1>i, <1>x, Zenon DEF Cached
  <2>4. boot' = "install_trans" => tail' = tail + 1 /\ tail' <= Len(lh)
    BY <1>t
  <2>5. boot' = "clear" => \A i \in 1 .. Len(lh) : i < tail + 1
    BY <1>t
  <2>6. boot' \in {"install_trans", "clear"}
    BY SMTT(60)
  <2> QED
    BY <2>2, <2>3, <2>4, <2>5, <2>6, <1>i, SMTT(30) DEF IInv, BootInv
<1>4. CacheInv' /\ CommitInv' /\ PhaseInv'
  BY Zenon DEF CacheInv, CommitInv, PhaseInv
<1> QED
  BY <1>1, <1>2, <1>3, <1>4, Zenon DEF IInv

LEMMA RecoverClearInv ==
  ASSUME Counting, IInv, recover_clear PROVE IInv'
<1> USE DEF recover_clear, cache, threads
<1>l. /\ lh' = <<>> /\ dhead' = <<>> /\ Len(lh') = 0
      /\ lh' \in Seq(Block) /\ dhead' \in Seq(Block)
  BY SMTT(60)
<1>b. /\ pc = [p \in Proc |-> "idle"]
      /\ held = [p \in Proc |-> NoBlock]
      /\ refcnt = [b \in Block |-> 0]
      /\ outstanding = 0 /\ ~committing
      /\ \A b \in Block : Cached(b) => buf[b] = home[b]
  BY Zenon DEF IInv, BootInv
<1>1. TypeOK'
  BY <1>l, LogAssumption DEF IInv, TypeOK, Boot
<1>2. IsDistinct(lh)' /\ IsDistinct(dhead)'
  BY <1>l DEF IsDistinct
<1>3. BootInv'
  BY Zenon DEF BootInv
<1>4. CacheInv'
  <2>1. Pinned' = {}
    BY <1>l DEF Pinned
  <2>2. Locked' = {}
    BY <1>b, Zenon DEF Locked
  <2> QED
    BY <2>1, <2>2, <1>b DEF CacheInv, Cached
<1>5. CommitInv'
  <2>1. Active' = {}
    BY <1>b, Zenon DEF Active, OpPC
  <2> QED
    BY <2>1, <1>b, Zenon DEF CommitInv, CommitPC, Counting
<1>6. PhaseInv'
  BY <1>b, <1>l, Zenon DEF PhaseInv
<1> QED
  BY <1>1, <1>2, <1>3, <1>4, <1>5, <1>6, Zenon DEF IInv

LEMMA StepInv == ASSUME Counting, IInv, [Next]_vars PROVE IInv'
<1>1. ASSUME NEW p \in Proc, StartRead(p) \/ EndRead(p) PROVE IInv'
  BY <1>1, StartReadInv, EndReadInv, Zenon
<1>2. ASSUME NEW p \in Proc, begin_op(p) \/ OpStep(p) \/ end_op(p) PROVE IInv'
  BY <1>2, BeginOpInv, OpBreadInv, OpModifyInv, OpBrelseInv, LogWriteInv, EndOpInv, Zenon
     DEF OpStep
<1>3. ASSUME NEW p \in Proc, CommitStep(p) PROVE IInv'
  BY <1>3, CommitInvariant, WriteLogInv, WriteHeadInv, InstallTransInv, ClearInv,
     EndCommitInv, Zenon DEF CommitStep
<1>4. ASSUME NEW b \in Block, Evict(b) PROVE IInv'
  BY <1>4, EvictInv, Zenon
<1>5. CASE Crash \/ Recover
  BY <1>5, CrashInv, ReadHeadInv, RecoverInstallInv, RecoverClearInv, Zenon DEF Recover
<1>6. CASE UNCHANGED vars
  <2> USE <1>6 DEF vars
  <2>1. Pinned' = Pinned /\ Locked' = Locked /\ Dirty' = Dirty /\ Active' = Active
    BY Zenon DEF Pinned, Installed, Locked, Dirty, Active
  <2>2. TypeOK'
    BY Zenon DEF IInv, TypeOK
  <2>7. IsDistinct(lh)' /\ IsDistinct(dhead)'
    BY Zenon DEF IInv, IsDistinct
  <2>3. BootInv'
    BY Zenon DEF IInv, BootInv, Cached
  <2>4. CacheInv'
    BY <2>1, Zenon DEF IInv, CacheInv, Cached
  <2>5. CommitInv'
    BY <2>1, Zenon DEF IInv, CommitInv
  <2>6. PhaseInv'
    BY Zenon DEF IInv, PhaseInv
  <2> QED
    BY <2>2, <2>3, <2>4, <2>5, <2>6, <2>7, Zenon DEF IInv
<1> QED
  BY <1>1, <1>2, <1>3, <1>4, <1>5, <1>6, Zenon DEF Next

-----------------------------------------------------------------------------
(* Sleepers in begin_op().                                                 *)

WakeInv == NoLostWakeup /\ IdleLogEmpty

LEMMA OpStepSleepers ==
  ASSUME IInv, WakeInv, NEW p \in Proc,
         StartRead(p) \/ EndRead(p) \/ OpBread(p) \/ OpModify(p) \/ OpBrelse(p) \/ log_write(p)
  PROVE  WakeInv'
<1>1. /\ pc \in [Proc -> PC] /\ UNCHANGED <<boot, committing>> /\ boot = "up"
      /\ \E l \in PC \ {"sleep"} : pc' = [pc EXCEPT ![p] = l] \/ pc' = pc
  BY Zenon DEF IInv, TypeOK, StartRead, EndRead, OpBread, OpModify, OpBrelse, log_write, Running,
         Bread, brelse, Goto, log, PC, OpPC
<1>2. Active' = Active
  BY <1>1, Zenon DEF StartRead, EndRead, OpBread, OpModify, OpBrelse, log_write, Running,
         Bread, brelse, Goto, Active, OpPC
<1>3. Active = {} => lh' = lh
  BY <1>1, Zenon DEF StartRead, EndRead, OpBread, OpModify, OpBrelse, log_write, log, Active, OpPC
<1> QED
  BY <1>1, <1>2, <1>3, Zenon DEF WakeInv, NoLostWakeup, IdleLogEmpty

LEMMA CommitStepSleepers ==
  ASSUME IInv, WakeInv, NEW p \in Proc, CommitStep(p)
  PROVE  WakeInv'
<1>0. pc \in [Proc -> PC] /\ boot = "up" /\ boot' = boot /\ pc[p] \in CommitPC
  BY Zenon DEF IInv, TypeOK, CommitStep, commit, write_log, write_head, install_trans, clear,
         end_commit, Running, CommitPC
<1>1. CASE end_commit(p)
  <2>1. \A q \in Proc : pc'[q] # "sleep"
    BY <1>0, <1>1, Zenon DEF end_commit, Wakeup
  <2>2. lh' = <<>>
    BY <1>0, <1>1, Zenon DEF end_commit, IInv, PhaseInv
  <2> QED
    BY <2>1, <2>2, Zenon DEF WakeInv, NoLostWakeup, IdleLogEmpty
<1>2. CASE ~end_commit(p)
  <2>1. committing /\ committing' = committing
    BY <1>0, <1>2, Zenon DEF IInv, CommitInv, CommitStep, commit, write_log, write_head,
          install_trans, clear, log
  <2> QED
    BY <2>1, Zenon DEF WakeInv, NoLostWakeup, IdleLogEmpty
<1> QED
  BY <1>1, <1>2, Zenon

LEMMA StepSleepers == ASSUME Counting, IInv, WakeInv, [Next]_vars PROVE WakeInv'
<1>t. pc \in [Proc -> PC]
  BY Zenon DEF IInv, TypeOK
<1>1. CASE \E p \in Proc : StartRead(p) \/ EndRead(p) \/ OpStep(p)
  BY <1>1, OpStepSleepers, Zenon DEF OpStep
<1>2. CASE \E p \in Proc : CommitStep(p)
  BY <1>2, CommitStepSleepers, Zenon
<1>3. ASSUME NEW p \in Proc, begin_op(p) PROVE WakeInv'
  <2>1. CASE committing
    BY <1>3, <2>1, Zenon DEF begin_op, WakeInv, NoLostWakeup, IdleLogEmpty
  <2>2. CASE ~committing /\ Len(lh) + (outstanding + 1) * MAXOPBLOCKS <= LOGSIZE
    <3>0. ~(Len(lh) + (outstanding + 1) * MAXOPBLOCKS > LOGSIZE)
      BY <2>2, LogAssumption DEF IInv, TypeOK
    <3>1. pc' = [pc EXCEPT ![p] = "op"]
      BY <1>3, <2>2, <3>0, Zenon DEF begin_op, Goto
    <3>2. p \in Active'
      BY <1>t, <3>1, Zenon DEF Active, OpPC
    <3> QED
      BY <3>2, Zenon DEF WakeInv, NoLostWakeup, IdleLogEmpty
  <2>3. CASE ~committing /\ Len(lh) + (outstanding + 1) * MAXOPBLOCKS > LOGSIZE
    <3>1. /\ pc' = [pc EXCEPT ![p] = "sleep"] /\ pc[p] \notin OpPC /\ boot = "up"
          /\ UNCHANGED <<boot, committing, lh>>
      BY <1>3, <2>3, LogAssumption, SMTT(30) DEF begin_op, Goto, Running, IInv, TypeOK, OpPC
    <3>2. Active' = Active
      BY <1>t, <3>1, Zenon DEF Active, OpPC
    <3>3. Active # {}
      <4> SUFFICES ASSUME Active = {} PROVE FALSE
        BY Zenon
      <4>1. Len(lh) = 0
        BY <2>3, <3>1 DEF WakeInv, NoLostWakeup, IdleLogEmpty
      <4>2. outstanding = 0
        BY <3>1, Zenon DEF IInv, CommitInv, Counting
      <4> QED
        BY <2>3, <4>1, <4>2, LogAssumption
    <3> QED
      BY <3>2, <3>3, Zenon DEF WakeInv, NoLostWakeup, IdleLogEmpty
  <2> QED
    BY <2>1, <2>2, <2>3, LogAssumption, SMTT(30) DEF IInv, TypeOK
<1>4. ASSUME NEW p \in Proc, end_op(p) PROVE WakeInv'
  <2>1. CASE outstanding = 1
    BY <1>4, <2>1, Zenon DEF end_op, WakeInv, NoLostWakeup, IdleLogEmpty
  <2>2. CASE outstanding # 1
    <3>1. \A q \in Proc : pc'[q] = IF q = p \/ pc[q] = "sleep"
                                    THEN IF q = p THEN "idle" ELSE "begin_op" ELSE pc[q]
      BY <1>t, <1>4, <2>2, Zenon DEF end_op, Wakeup
    <3>2. \E q \in Active : q # p
      <4>0. p \in Active
        BY <1>4, Zenon DEF end_op, Active, OpPC
      <4> SUFFICES ASSUME Active = {p} PROVE FALSE
        BY <4>0, Zenon
      <4>1. Cardinality(Active) = 1
        <5>1. p \notin {} /\ IsFiniteSet({}) /\ Cardinality({}) = 0
          BY Zenon DEF Counting
        <5>2. Cardinality({} \cup {p}) = Cardinality({}) + 1
          BY <5>1, Zenon DEF Counting
        <5>3. {} \cup {p} = {p}
          BY Zenon
        <5>4. Cardinality({p}) = 0 + 1
          BY <5>1, <5>2, <5>3, Zenon
        <5>5. 0 + 1 = 1
          OBVIOUS
        <5> QED
          BY <5>4, <5>5, Zenon
      <4>2. outstanding = Cardinality(Active)
        BY <1>4, Zenon DEF end_op, Running, IInv, CommitInv
      <4> QED
        BY <2>2, <4>1, <4>2, Zenon
    <3>3. Active' # {}
      BY <3>1, <3>2, Zenon DEF Active, OpPC
    <3> QED
      BY <3>3, Zenon DEF WakeInv, NoLostWakeup, IdleLogEmpty
  <2> QED
    BY <2>1, <2>2, Zenon
<1>5. CASE \E b \in Block : Evict(b)
  BY <1>5 DEF Evict, WakeInv, NoLostWakeup, IdleLogEmpty, Active, log, threads
<1>6. CASE Crash
  BY <1>6, Zenon DEF Crash, WakeInv, NoLostWakeup, IdleLogEmpty
<1>7. CASE Recover
  BY <1>7, Zenon DEF Recover, read_head, recover_install, recover_clear, WakeInv, NoLostWakeup, IdleLogEmpty, IInv, BootInv, threads
<1>8. CASE UNCHANGED vars
  BY <1>8, Zenon DEF vars, WakeInv, NoLostWakeup, IdleLogEmpty, Active
<1> QED
  BY <1>1, <1>2, <1>3, <1>4, <1>5, <1>6, <1>7, <1>8, Zenon DEF Next

-----------------------------------------------------------------------------
(* The overlay of a committed log over the home blocks.                    *)

LEMMA OverlayValue ==
  ASSUME NEW hd \in Seq(Block), IsDistinct(hd), NEW dl, NEW hm, NEW b \in Block
  PROVE  /\ \A i \in 1 .. Len(hd) : hd[i] = b => Overlay(hd, dl, hm)[b] = dl[i]
         /\ b \notin Image(hd) => Overlay(hd, dl, hm)[b] = hm[b]
<1>1. ASSUME NEW i \in 1 .. Len(hd), hd[i] = b
      PROVE  (CHOOSE j \in 1 .. Len(hd) : hd[j] = b) = i
  BY <1>1, Zenon DEF IsDistinct
<1>2. ASSUME NEW i \in 1 .. Len(hd), hd[i] = b PROVE b \in Image(hd)
  BY <1>2, Zenon DEF Image
<1> QED
  BY <1>1, <1>2, Zenon DEF Overlay

\* Two overlays agree when they agree block by block.
LEMMA OverlayEqual ==
  ASSUME NEW hd, NEW dl, NEW hm, NEW hd2, NEW dl2, NEW hm2,
         \A b \in Block : Overlay(hd, dl, hm)[b] = Overlay(hd2, dl2, hm2)[b]
  PROVE  Overlay(hd, dl, hm) = Overlay(hd2, dl2, hm2)
BY Zenon DEF Overlay

\* The disk with an empty log is the home blocks.
LEMMA OverlayEmpty ==
  ASSUME NEW dl, NEW hm, NEW b \in Block
  PROVE  Overlay(<<>>, dl, hm)[b] = hm[b]
<1>1. b \notin Image(<<>>)
  BY DEF Image
<1> QED
  BY <1>1, Zenon DEF Overlay

\* Writing a logged block at home does not show through the overlay.
LEMMA OverlayHidesHome ==
  ASSUME NEW hd \in Seq(Block), IsDistinct(hd), NEW dl, NEW hm, NEW hm2,
         NEW k \in 1 .. Len(hd),
         \A b \in Block \ {hd[k]} : hm2[b] = hm[b]
  PROVE  Overlay(hd, dl, hm2) = Overlay(hd, dl, hm)
<1> SUFFICES ASSUME NEW b \in Block
             PROVE  Overlay(hd, dl, hm2)[b] = Overlay(hd, dl, hm)[b]
  BY OverlayEqual
<1>1. CASE b \in Image(hd)
  BY <1>1, OverlayValue DEF Image
<1>2. CASE b \notin Image(hd)
  <2>1. b # hd[k]
    BY <1>2, Zenon DEF Image
  <2> QED
    BY <1>2, <2>1, OverlayValue
<1> QED
  BY <1>1, <1>2, Zenon

\* When all logged blocks are installed the log can be dropped.
LEMMA OverlayInstalled ==
  ASSUME NEW hd \in Seq(Block), IsDistinct(hd), NEW dl, NEW hm,
         \A i \in 1 .. Len(hd) : hm[hd[i]] = dl[i]
  PROVE  \A b \in Block : Overlay(hd, dl, hm)[b] = hm[b]
<1> SUFFICES ASSUME NEW b \in Block PROVE Overlay(hd, dl, hm)[b] = hm[b]
  BY Zenon
<1>1. CASE b \in Image(hd)
  BY <1>1, OverlayValue DEF Image
<1>2. CASE b \notin Image(hd)
  BY <1>2, OverlayValue
<1> QED
  BY <1>1, <1>2, Zenon

-----------------------------------------------------------------------------
(* Steps that change nothing that TxnDisk can see.                         *)

LEMMA DurableSame ==
  ASSUME UNCHANGED <<home, dlog, dhead>> PROVE Durable' = Durable
BY Zenon DEF Durable

LEMMA DurableHidesHome ==
  ASSUME IInv, NEW k \in 1 .. Len(dhead), UNCHANGED <<dlog, dhead>>,
         \A b \in Block \ {dhead[k]} : home'[b] = home[b]
  PROVE  Durable' = Durable
<1>1. dhead \in Seq(Block) /\ IsDistinct(dhead)
  BY Zenon DEF IInv, TypeOK
<1>2. Overlay(dhead, dlog, home') = Overlay(dhead, dlog, home)
  BY <1>1, OverlayHidesHome
<1> QED
  BY <1>2, Zenon DEF Durable

LEMMA ViewSame ==
  ASSUME boot = "up", boot' = "up", \A b \in Block : Contents(b)' = Contents(b)
  PROVE  View' = View
BY Zenon DEF View

LEMMA ActiveSame ==
  ASSUME \A q \in Proc : pc'[q] \in OpPC <=> pc[q] \in OpPC
  PROVE  Active' = Active
BY Zenon DEF Active

LEMMA BreadContents ==
  ASSUME IInv, NEW p \in Proc, NEW b \in Block, NEW l, Bread(p, b, l), UNCHANGED home
  PROVE  \A c \in Block : Contents(c)' = Contents(c)
<1>1. buf \in [Block -> Val \cup {NoVal}] /\ home \in [Block -> Val]
  BY Zenon DEF IInv, TypeOK
<1> QED
  BY <1>1, Zenon DEF Bread, Contents, Cached

Stutters == Durable' = Durable /\ View' = View /\ Active' = Active

LEMMA ReadStutters ==
  ASSUME IInv, NEW p \in Proc, StartRead(p) \/ EndRead(p) PROVE Stutters
<1>t. pc \in [Proc -> PC]
  BY Zenon DEF IInv, TypeOK
<1>1. CASE StartRead(p)
  <2> PICK b \in Block : Bread(p, b, "reading")
    BY <1>1, Zenon DEF StartRead
  <2> USE <1>1 DEF StartRead, Running, disk, log
  <2>1. Active' = Active
    BY <1>t, ActiveSame, Zenon DEF Bread, Goto, OpPC
  <2> QED
    BY <2>1, DurableSame, BreadContents, ViewSame, Zenon DEF Stutters
<1>2. CASE EndRead(p)
  <2> USE <1>2 DEF EndRead, Running, disk, log
  <2>1. Active' = Active
    BY <1>t, ActiveSame, Zenon DEF brelse, Goto, OpPC
  <2> QED
    BY <2>1, DurableSame, ViewSame, Zenon DEF Stutters, Contents, Cached
<1> QED
  BY <1>1, <1>2, Zenon

LEMMA OpStutters ==
  ASSUME IInv, NEW p \in Proc, OpBread(p) \/ OpBrelse(p) \/ log_write(p) PROVE Stutters
<1>t. pc \in [Proc -> PC]
  BY Zenon DEF IInv, TypeOK
<1>1. CASE OpBread(p)
  <2> PICK b \in Block : Bread(p, b, "clean")
    BY <1>1, Zenon DEF OpBread
  <2> USE <1>1 DEF OpBread, Running, disk, log
  <2>1. Active' = Active
    BY <1>t, ActiveSame, Zenon DEF Bread, Goto, OpPC
  <2> QED
    BY <2>1, DurableSame, BreadContents, ViewSame, Zenon DEF Stutters
<1>2. CASE OpBrelse(p)
  <2> USE <1>2 DEF OpBrelse, Running, disk, log
  <2>1. Active' = Active
    BY <1>t, ActiveSame, Zenon DEF brelse, Goto, OpPC
  <2> QED
    BY <2>1, DurableSame, ViewSame, Zenon DEF Stutters, Contents, Cached
<1>3. CASE log_write(p)
  <2> USE <1>3 DEF log_write, Running, disk
  <2>1. Active' = Active
    BY <1>t, ActiveSame, Zenon DEF Goto, OpPC
  <2> QED
    BY <2>1, DurableSame, ViewSame, Zenon DEF Stutters, Contents, Cached
<1> QED
  BY <1>1, <1>2, <1>3, Zenon

LEMMA EvictStutters ==
  ASSUME IInv, NEW b \in Block, Evict(b) PROVE Stutters
<1> USE DEF Evict, Running, disk, log, threads
<1>t. buf \in [Block -> Val \cup {NoVal}]
  BY Zenon DEF IInv, TypeOK
<1>1. b \notin Pinned \cup Locked
  BY DEF IInv, CacheInv
<1>2. b \notin Dirty
  BY <1>1, HeldBuffer, Zenon DEF Dirty
<1>3. buf[b] = home[b]
  BY <1>1, <1>2, Zenon DEF IInv, CacheInv
<1>4. \A c \in Block : Contents(c)' = Contents(c)
  BY <1>t, <1>3, Zenon DEF Contents, Cached
<1> QED
  BY <1>4, DurableSame, ViewSame, ActiveSame, Zenon DEF Stutters

\* The steps of a commit other than its commit point.
LEMMA CommitStutters ==
  ASSUME IInv, NEW p \in Proc, commit(p) \/ end_commit(p) PROVE Stutters
<1>t. pc \in [Proc -> PC]
  BY Zenon DEF IInv, TypeOK
<1>1. CASE commit(p)
  <2> USE <1>1 DEF commit, Running, disk, cache, Goto
  <2>1. Active' = Active
    BY <1>t, ActiveSame, Zenon DEF OpPC
  <2> QED
    BY <2>1, DurableSame, ViewSame, Zenon DEF Stutters, Contents, Cached
<1>2. CASE end_commit(p)
  <2> USE <1>2 DEF end_commit, Running, disk, cache
  <2>1. Active' = Active
    <3>1. \A q \in Proc : pc'[q] \in OpPC <=> pc[q] \in OpPC
      BY <1>t, Zenon DEF Wakeup, OpPC
    <3> QED
      BY <3>1, ActiveSame, Zenon
  <2> QED
    BY <2>1, DurableSame, ViewSame, Zenon DEF Stutters, Contents, Cached
<1> QED
  BY <1>1, <1>2, Zenon

LEMMA WriteLogStutters ==
  ASSUME IInv, NEW p \in Proc, write_log(p) PROVE Stutters
<1> USE DEF write_log, Running, Goto
<1>t. /\ pc \in [Proc -> PC] /\ lh \in Seq(Block) /\ tail \in Nat \ {0}
      /\ buf \in [Block -> Val \cup {NoVal}]
  BY Zenon DEF IInv, TypeOK
<1>1. dhead = <<>>
  BY Committer, SMTT(30) DEF IInv, PhaseInv, CommitPC
<1>2. Durable' = Durable
  BY <1>1, OverlayEmpty, OverlayEqual, SMTT(30) DEF Durable
<1>3. tail \in 1 .. Len(lh)
  BY <1>t, SMTT(30) DEF IInv, PhaseInv
<1>4. Cached(lh[tail]) /\ lh[tail] \in Block
  BY <1>t, <1>3, ToInstall, SMTT(30)
<1>5. \A c \in Block : Contents(c)' = Contents(c)
  BY <1>t, <1>4, Zenon DEF Contents, Cached
<1>6. Active' = Active
  BY <1>t, ActiveSame, Zenon DEF OpPC
<1> QED
  BY <1>2, <1>5, <1>6, ViewSame, Zenon DEF Stutters

LEMMA InstallStutters ==
  ASSUME IInv, NEW p \in Proc, install_trans(p) PROVE Stutters
<1> USE DEF install_trans, Running, Goto
<1>t. /\ pc \in [Proc -> PC] /\ lh \in Seq(Block) /\ tail \in Nat \ {0}
      /\ buf \in [Block -> Val \cup {NoVal}] /\ home \in [Block -> Val]
  BY Zenon DEF IInv, TypeOK
<1>1. /\ dhead = lh /\ tail \in 1 .. Len(lh)
      /\ dlog[tail] = buf[lh[tail]]
  BY <1>t, SMTT(30) DEF IInv, PhaseInv
<1>2. Cached(lh[tail]) /\ lh[tail] \in Block
  BY <1>t, <1>1, ToInstall
<1>3. Durable' = Durable
  <2>1. \A b \in Block \ {dhead[tail]} : home'[b] = home[b]
    BY <1>t, <1>1, Zenon
  <2> QED
    BY <1>1, <2>1, DurableHidesHome, Zenon
<1>4. \A c \in Block : Contents(c)' = Contents(c)
  BY <1>t, <1>1, <1>2, Zenon DEF Contents, Cached
<1>5. Active' = Active
  BY <1>t, ActiveSame, Zenon DEF OpPC
<1> QED
  BY <1>3, <1>4, <1>5, ViewSame, Zenon DEF Stutters

LEMMA ClearStutters ==
  ASSUME IInv, NEW p \in Proc, clear(p) PROVE Stutters
<1> USE DEF clear, Running, Goto, cache
<1>t. pc \in [Proc -> PC] /\ lh \in Seq(Block)
  BY Zenon DEF IInv, TypeOK
<1>1. dhead = lh /\ IsDistinct(lh) /\ \A i \in 1 .. Len(lh) : home[lh[i]] = dlog[i]
  BY Zenon DEF IInv, PhaseInv
<1>2. \A b \in Block : Overlay(lh, dlog, home)[b] = home[b]
  BY <1>t, <1>1, OverlayInstalled, SMTT(30)
<1>3. Durable' = Durable
  BY <1>1, <1>2, OverlayEmpty, OverlayEqual DEF Durable
<1>4. Active' = Active
  BY <1>t, ActiveSame, Zenon DEF OpPC
<1> QED
  BY <1>3, <1>4, ViewSame, Zenon DEF Stutters, Contents, Cached

LEMMA RecoverStutters ==
  ASSUME IInv, Recover PROVE Stutters
<1>t. /\ lh \in Seq(Block) /\ tail \in Nat \ {0} /\ dhead \in Seq(Block)
      /\ buf \in [Block -> Val \cup {NoVal}] /\ home \in [Block -> Val]
  BY Zenon DEF IInv, TypeOK
<1>d. IsDistinct(dhead)
  BY Zenon DEF IInv
<1>1. CASE read_head
  <2> USE <1>1 DEF read_head, disk, threads
  <2>1. Durable' = Durable
    BY DurableSame, Zenon
  <2>2. View' = View
    BY <2>1, Zenon DEF View
  <2> QED
    BY <2>1, <2>2, ActiveSame, Zenon DEF Stutters
<1>2. CASE recover_install
  <2> USE <1>2 DEF recover_install, threads
  <2>1. dhead = lh /\ tail \in 1 .. Len(dhead)
    BY <1>t DEF IInv, BootInv
  <2>2. \A b \in Block \ {dhead[tail]} : home'[b] = home[b]
    BY <1>t, <2>1, Zenon
  <2>3. Durable' = Durable
    BY <2>1, <2>2, DurableHidesHome, Zenon
  <2>4. View' = View
    BY <2>3, Zenon DEF View
  <2> QED
    BY <2>3, <2>4, ActiveSame, Zenon DEF Stutters
<1>3. CASE recover_clear
  <2> USE <1>3 DEF recover_clear, threads, cache
  <2>1. /\ dhead = lh /\ \A i \in 1 .. Len(dhead) : home[dhead[i]] = dlog[i]
        /\ \A b \in Block : Cached(b) => buf[b] = home[b]
    BY Zenon DEF IInv, BootInv
  <2>2. \A b \in Block : Overlay(dhead, dlog, home)[b] = home[b]
    BY <1>t, <1>d, <2>1, OverlayInstalled, SMTT(30)
  <2>3. Durable' = Durable
    BY <2>2, OverlayEmpty, OverlayEqual, SMTT(30) DEF Durable
  <2>4. \A b \in Block : Contents(b)' = home[b]
    BY <2>1, Zenon DEF Contents, Cached
  <2>5. Durable = [b \in Block |-> home[b]]
    BY <2>2, Zenon DEF Durable, Overlay
  <2>6. View' = [b \in Block |-> Contents(b)']
    BY Zenon DEF View
  <2>7. View' = View
    BY <2>4, <2>5, <2>6, Zenon DEF View
  <2> QED
    BY <2>3, <2>7, ActiveSame, Zenon DEF Stutters
<1> QED
  BY <1>1, <1>2, <1>3, Zenon DEF Recover

-----------------------------------------------------------------------------
(* Steps of TxnDisk.                                                       *)

LEMMA BeginRefines ==
  ASSUME IInv, NEW p \in Proc, begin_op(p) PROVE Stutters \/ Abstract!Begin(p)
<1> USE DEF begin_op, Running, disk, cache, Goto
<1>t. pc \in [Proc -> PC]
  BY Zenon DEF IInv, TypeOK
<1>1. Durable' = Durable
  BY DurableSame, Zenon
<1>2. View' = View
  BY ViewSame, Zenon DEF Contents, Cached
<1>3. CASE pc' = [pc EXCEPT ![p] = "sleep"]
  <2>1. Active' = Active
    BY <1>3, <1>t, ActiveSame, Zenon DEF OpPC
  <2> QED
    BY <1>1, <1>2, <2>1, Zenon DEF Stutters
<1>4. CASE pc' = [pc EXCEPT ![p] = "op"]
  <2>1. Active' = Active \cup {p} /\ p \notin Active
    BY <1>4, <1>t, Zenon DEF Active, OpPC
  <2> QED
    BY <1>1, <1>2, <2>1, Zenon DEF Abstract!Begin
<1> QED
  BY <1>3, <1>4, Zenon

LEMMA ModifyRefines ==
  ASSUME IInv, NEW p \in Proc, OpModify(p)
  PROVE  \E b \in Block, v \in Val : Abstract!Write(p, b, v)
<1> USE DEF OpModify, Running, disk, log, Goto
<1>t. pc \in [Proc -> PC] /\ buf \in [Block -> Val \cup {NoVal}]
  BY Zenon DEF IInv, TypeOK
<1>h. held[p] \in Block
  BY HeldBuffer, Zenon
<1> PICK v \in Val : buf' = [buf EXCEPT ![held[p]] = v]
  BY Zenon
<1>1. Durable' = Durable
  BY DurableSame, Zenon
<1>2. p \in Active /\ Active' = Active
  BY <1>t, ActiveSame, Zenon DEF Active, OpPC
<1>3. View = [b \in Block |-> Contents(b)] /\ View' = [b \in Block |-> Contents(b)']
  BY Zenon DEF View
<1>4. \A b \in Block : Contents(b)' = IF b = held[p] THEN v ELSE Contents(b)
  BY <1>t, <1>h, LogAssumption, Zenon DEF Contents, Cached
<1>5. View' = [View EXCEPT ![held[p]] = v]
  BY <1>3, <1>4, <1>h, Zenon
<1> QED
  BY <1>1, <1>2, <1>5, <1>h, ZenonT(40) DEF Abstract!Write

LEMMA EndRefines ==
  ASSUME IInv, NEW p \in Proc, end_op(p) PROVE Abstract!End(p)
<1> USE DEF end_op, Running, disk, cache, Goto
<1>t. pc \in [Proc -> PC]
  BY Zenon DEF IInv, TypeOK
<1>1. Durable' = Durable
  BY DurableSame, Zenon
<1>2. View' = View
  BY ViewSame, Zenon DEF Contents, Cached
<1>3. \A q \in Proc : pc'[q] \in OpPC <=> pc[q] \in OpPC /\ q # p
  BY <1>t, Zenon DEF Wakeup, OpPC
<1>4. Active' = Active \ {p} /\ p \in Active
  BY <1>3, Zenon DEF Active, OpPC
<1> QED
  BY <1>1, <1>2, <1>4, Zenon DEF Abstract!End

\* The write of the log header is the commit point.
LEMMA WriteHeadRefines ==
  ASSUME IInv, NEW p \in Proc, write_head(p) PROVE Abstract!Commit
<1> USE DEF write_head, Running, Goto, cache, log
<1>t. pc \in [Proc -> PC] /\ lh \in Seq(Block)
  BY Zenon DEF IInv, TypeOK
<1>a. Active = {} /\ Dirty = {} /\ \A q \in Proc : pc[q] \in CommitPC => q = p
  BY Committer, Zenon DEF CommitPC
<1>1. Active' = Active
  BY <1>t, ActiveSame, Zenon DEF OpPC
<1>2. View' = View
  BY ViewSame, Zenon DEF Contents, Cached
<1>3. Pinned = Image(lh)
  BY <1>a, AllPinned, Zenon DEF CommitPC
<1>4. IsDistinct(lh) /\ \A i \in 1 .. Len(lh) : dlog[i] = buf[lh[i]]
  BY Zenon DEF IInv, PhaseInv
<1>5. \A b \in Block : Overlay(lh, dlog, home)[b] = Contents(b)
  <2> SUFFICES ASSUME NEW b \in Block PROVE Overlay(lh, dlog, home)[b] = Contents(b)
    BY SMTT(30)
  <2>1. CASE b \in Image(lh)
    <3>1. Cached(b)
      BY <2>1, <1>3, Zenon DEF IInv, CacheInv
    <3>2. PICK i \in 1 .. Len(lh) : lh[i] = b
      BY <2>1, Zenon DEF Image
    <3> QED
      BY <3>1, <3>2, <1>t, <1>4, OverlayValue, SMTT(30) DEF Contents
  <2>2. CASE b \notin Image(lh)
    <3>1. Contents(b) = home[b]
      BY <2>2, <1>3, <1>a, Zenon DEF IInv, CacheInv, Contents
    <3> QED
      BY <3>1, <2>2, <1>t, <1>4, OverlayValue, SMTT(30)
  <2> QED
    BY <2>1, <2>2, Zenon
<1>6. View = [b \in Block |-> Contents(b)]
  BY Zenon DEF View
<1>7. Durable' = Overlay(lh, dlog, home)
  BY Zenon DEF Durable
<1>8. Durable' = View
  BY <1>5, <1>6, <1>7, Zenon DEF Overlay
<1> QED
  BY <1>a, <1>1, <1>2, <1>8, Zenon DEF Abstract!Commit

\* A torn write hits a block that the committed log supplies, or a slot of a
\* log that is not committed: the durable contents survive.
LEMMA CrashRefines ==
  ASSUME IInv, Crash PROVE Abstract!Crash
<1>t. /\ lh \in Seq(Block) /\ dhead \in Seq(Block) /\ tail \in Nat \ {0}
      /\ home \in [Block -> Val]
  BY Zenon DEF IInv, TypeOK
<1>1. Durable' = Durable
  <2>1. CASE UNCHANGED <<home, dlog>>
    BY <2>1, DurableSame, Zenon DEF Crash
  <2>2. ASSUME NEW b \in InstallTarget, NEW v \in Val,
               home' = [home EXCEPT ![b] = v], UNCHANGED dlog
        PROVE  Durable' = Durable
    <3>1. b = lh[tail] /\ (boot = "install_trans" \/ \E p \in Proc : pc[p] = "install_trans")
      BY <2>2, Zenon DEF InstallTarget
    <3>2. dhead = lh /\ tail <= Len(lh)
      <4>1. CASE boot = "up"
        BY <3>1, <4>1, Zenon DEF IInv, PhaseInv
      <4>2. CASE boot # "up"
        BY <3>1, <4>2, Zenon DEF IInv, BootInv
      <4> QED
        BY <4>1, <4>2, Zenon
    <3>3. tail \in 1 .. Len(dhead) /\ UNCHANGED dhead
      BY <1>t, <3>2 DEF Crash
    <3>4. \A c \in Block \ {dhead[tail]} : home'[c] = home[c]
      BY <1>t, <2>2, <3>1, <3>2, Zenon
    <3> QED
      BY <2>2, <3>3, <3>4, DurableHidesHome, Zenon
  <2>3. ASSUME NEW i \in LogTarget, UNCHANGED home PROVE Durable' = Durable
    <3>1. PICK p \in Proc : pc[p] = "write_log"
      BY <2>3, Zenon DEF LogTarget
    <3>2. boot = "up"
      BY <3>1, Zenon DEF IInv, BootInv
    <3>3. dhead = <<>> /\ UNCHANGED dhead
      BY <3>1, <3>2, Committer, SMTT(30) DEF IInv, PhaseInv, CommitPC, Crash
    <3> QED
      BY <2>3, <3>3, OverlayEmpty, OverlayEqual DEF Durable
  <2> QED
    BY <2>1, <2>2, <2>3, Zenon DEF Crash
<1>2. View' = Durable'
  BY Zenon DEF Crash, View
<1>3. Active' = {}
  BY Zenon DEF Crash, Active, OpPC
<1> QED
  BY <1>1, <1>2, <1>3, Zenon DEF Abstract!Crash

LEMMA InitRefines == Init => Abstract!Init
<1> SUFFICES ASSUME Init PROVE Abstract!Init
  BY Zenon
<1>1. \A b \in Block : Overlay(<<>>, dlog, home)[b] = home[b]
  BY OverlayEmpty, Zenon
<1>2. Durable = [b \in Block |-> home[b]]
  BY <1>1, Zenon DEF Durable, Init, Overlay
<1>3. Durable \in [Block -> Val]
  BY <1>2, Zenon DEF Init
<1>4. View = Durable
  BY Zenon DEF Init, View
<1>5. Active = {}
  BY Zenon DEF Init, Active, OpPC
<1> QED
  BY <1>3, <1>4, <1>5, Zenon DEF Abstract!Init

LEMMA StepRefines == IInv /\ [Next]_vars => [Abstract!Next]_(Abstract!vars)
<1> SUFFICES ASSUME IInv, [Next]_vars PROVE Abstract!Next \/ Stutters
  BY Zenon DEF Stutters, Abstract!vars
<1>1. ASSUME NEW p \in Proc, StartRead(p) \/ EndRead(p) PROVE Stutters
  BY <1>1, ReadStutters, Zenon
<1>2. ASSUME NEW p \in Proc, begin_op(p) \/ end_op(p) PROVE Abstract!Next \/ Stutters
  BY <1>2, BeginRefines, EndRefines, Zenon DEF Abstract!Next
<1>3. ASSUME NEW p \in Proc, OpStep(p) PROVE Abstract!Next \/ Stutters
  BY <1>3, OpStutters, ModifyRefines, Zenon DEF OpStep, Abstract!Next
<1>4. ASSUME NEW p \in Proc, CommitStep(p) PROVE Abstract!Next \/ Stutters
  BY <1>4, CommitStutters, WriteLogStutters, WriteHeadRefines, InstallStutters,
     ClearStutters, Zenon DEF CommitStep, Abstract!Next
<1>5. ASSUME NEW b \in Block, Evict(b) PROVE Stutters
  BY <1>5, EvictStutters, Zenon
<1>6. CASE Crash \/ Recover
  BY <1>6, CrashRefines, RecoverStutters, Zenon DEF Abstract!Next
<1>7. CASE UNCHANGED vars
  <2>1. Durable' = Durable /\ Active' = Active
    BY <1>7, Zenon DEF vars, Durable, Active
  <2>2. \A b \in Block : Contents(b)' = Contents(b)
    BY <1>7, Zenon DEF vars, Contents, Cached
  <2>3. View' = View
    BY <1>7, <2>1, <2>2, Zenon DEF vars, View
  <2> QED
    BY <2>1, <2>3, Zenon DEF Stutters
<1> QED
  BY <1>1, <1>2, <1>3, <1>4, <1>5, <1>6, <1>7, Zenon DEF Next

-----------------------------------------------------------------------------
(* The theorems                                                            *)

INSTANCE FiniteSetTheorems

LEMMA Counts == Counting
  BY FS_EmptySet, FS_CardinalityType, FS_Subset, FS_AddElement, FS_RemoveElement, Zenon DEF Counting

\* In every reachable state of log.c, boot and crashes included, the parts of
\* the inductive invariant hold, for any number of threads, blocks and slots.
THEOREM Invariance == Spec => []IInv
<1>1. IInv /\ [Next]_vars => IInv'
  BY StepInv, Counts, Zenon
<1> QED
  BY <1>1, InitInv, PTL DEF Spec

\* Type correctness of the log's variables.
THEOREM TypeCorrect == Spec => []TypeOK
<1>1. IInv => TypeOK
  BY Zenon DEF IInv
<1> QED
  BY <1>1, Invariance, PTL

\* A logged block stays cached and pinned until install_trans unpins it.
THEOREM LoggedCached == Spec => []LoggedStaysCached
<1>1. IInv => LoggedStaysCached
  <2> SUFFICES ASSUME IInv, boot = "up", NEW b \in Pinned
               PROVE  refcnt[b] > 0 /\ Cached(b)
    BY Zenon DEF LoggedStaysCached
  <2>1. b \in Block
    BY DEF IInv, TypeOK, Pinned
  <2>2. /\ refcnt[b] = (IF b \in Pinned THEN 1 ELSE 0) + (IF b \in Locked THEN 1 ELSE 0)
        /\ Cached(b)
    BY <2>1, Zenon DEF IInv, CacheInv
  <2> QED
    BY <2>2
<1> QED
  BY <1>1, Invariance, PTL

\* Nobody waits in begin_op() for a log that is not in use, which would be empty.
LEMMA WakeInvariance == Spec => []WakeInv
<1>1. Init => WakeInv
  BY Zenon DEF Init, WakeInv, NoLostWakeup, IdleLogEmpty
<1>2. IInv /\ WakeInv /\ [Next]_vars => WakeInv'
  BY StepSleepers, Counts, Zenon
<1> QED
  BY <1>1, <1>2, Invariance, PTL DEF Spec

\* No wakeup is lost: a thread asleep in begin_op() always has a call or a
\* commit in progress whose end_op() will wake it.
THEOREM WakeupsArrive == Spec => []NoLostWakeup
<1>1. WakeInv => NoLostWakeup
  BY Zenon DEF WakeInv
<1> QED
  BY <1>1, WakeInvariance, PTL

\* log.c with crashes, torn block writes, evictions and repeated recovery
\* implements the disk that commits whole file-system calls only.
THEOREM Refinement == Spec => ImplementsTxnDisk
<1>1. Spec => Abstract!Init /\ [][Abstract!Next]_(Abstract!vars)
  BY InitRefines, StepRefines, Invariance, PTL DEF Spec
<1> QED
  BY <1>1, Zenon DEF ImplementsTxnDisk, Abstract!Spec

\* When the committing end_op returns, what readers see is what is durable.
THEOREM CommittedIsDurable == Spec => DurableOnReturn
<1>1. IInv /\ [Next]_vars =>
        [\A p \in Proc : end_commit(p) => Durable = View /\ lh = <<>>]_vars
  <2> SUFFICES ASSUME IInv, NEW p \in Proc, end_commit(p)
               PROVE  Durable = View /\ lh = <<>>
    BY SMTT(30)
  <2> USE DEF end_commit, Running
  <2>1. lh = <<>>
    BY Zenon DEF IInv, PhaseInv
  <2>2. Dirty = {} /\ \A q \in Proc : pc[q] \in CommitPC => q = p
    BY Committer, Zenon DEF CommitPC
  <2>3. Pinned = {}
    BY <2>1, SMTT(30) DEF Pinned
  <2>4. dhead = <<>>
    BY <2>2, Zenon DEF IInv, PhaseInv, CommitPC
  <2>5. \A b \in Block : Contents(b) = home[b]
    BY <2>2, <2>3, Zenon DEF IInv, CacheInv, Contents
  <2>6. \A b \in Block : Overlay(<<>>, dlog, home)[b] = home[b]
    BY OverlayEmpty, Zenon
  <2>7. Durable = [b \in Block |-> home[b]]
    BY <2>4, <2>6, Zenon DEF Durable, Overlay
  <2>8. View = [b \in Block |-> home[b]]
    BY <2>5, Zenon DEF View
  <2> QED
    BY <2>1, <2>7, <2>8, Zenon
<1> QED
  BY <1>1, Invariance, PTL DEF Spec, DurableOnReturn

-----------------------------------------------------------------------------
(* Space in the log.                                                       *)

\* A call logs less than begin_op() reserves for it, two calls may be in progress
\* together, and the log area, header included, is LOGSIZE blocks.  param.h has
\* MAXOPBLOCKS 10 and LOGSIZE 30, and mkfs makes a log area of LOGSIZE blocks.
Margin == OPMAX < MAXOPBLOCKS /\ 2 * MAXOPBLOCKS <= LOGSIZE /\ NLOG = LOGSIZE

\* A call's logged blocks are in the log, and it keeps within its budget.
SpaceInv ==
  /\ SpaceReserved
  /\ \A p \in Proc :
       /\ p \notin Active => wrote[p] = {}
       /\ IsFiniteSet(wrote[p]) /\ wrote[p] \subseteq Image(lh)
       /\ pc[p] = "dirty" => Cardinality(wrote[p] \cup {held[p]}) <= OPMAX

LEMMA AllowanceFinite ==
  /\ IsFiniteSet(Active) /\ IsFiniteSet(Allowance)
  /\ Cardinality(Allowance) \in Nat /\ Cardinality(Allowance) <= Cardinality(Active) * OPMAX
<1>1. IsFiniteSet(Active)
  BY LogAssumption, FS_Subset, Zenon DEF Active
<1>2. IsFiniteSet(1 .. OPMAX) /\ Cardinality(1 .. OPMAX) = OPMAX
  BY LogAssumption, FS_Interval
<1>3. /\ IsFiniteSet(Active \X (1 .. OPMAX))
      /\ Cardinality(Active \X (1 .. OPMAX)) = Cardinality(Active) * OPMAX
  BY <1>1, <1>2, FS_Product, Zenon
<1>4. IsFiniteSet(Allowance) /\ Cardinality(Allowance) <= Cardinality(Active \X (1 .. OPMAX))
  BY <1>3, FS_Subset, Zenon DEF Allowance
<1> QED
  BY <1>1, <1>3, <1>4, FS_CardinalityType, Zenon

LEMMA AllowanceFiniteNext ==
  /\ IsFiniteSet(Active') /\ IsFiniteSet(Allowance')
  /\ Cardinality(Allowance') \in Nat /\ Cardinality(Allowance') <= Cardinality(Active') * OPMAX
<1>1. IsFiniteSet(Active')
  BY LogAssumption, FS_Subset, Zenon DEF Active
<1>2. IsFiniteSet(1 .. OPMAX) /\ Cardinality(1 .. OPMAX) = OPMAX
  BY LogAssumption, FS_Interval
<1>3. /\ IsFiniteSet(Active' \X (1 .. OPMAX))
      /\ Cardinality(Active' \X (1 .. OPMAX)) = Cardinality(Active') * OPMAX
  BY <1>1, <1>2, FS_Product, Zenon
<1>4. IsFiniteSet(Allowance') /\ Cardinality(Allowance') <= Cardinality(Active' \X (1 .. OPMAX))
  BY <1>3, FS_Subset, Zenon DEF Allowance
<1> QED
  BY <1>1, <1>3, <1>4, FS_CardinalityType, Zenon

\* A step that logs nothing and begins and ends no call.
LEMMA SpaceFrame ==
  ASSUME SpaceInv, UNCHANGED <<lh, wrote, panicked>>, Active' = Active,
         \A q \in Proc : pc'[q] = "dirty" =>
            \/ pc[q] = "dirty" /\ held'[q] = held[q]
            \/ Cardinality(wrote[q] \cup {held'[q]}) <= OPMAX
  PROVE  SpaceInv'
<1>1. Allowance' = Allowance
  BY Zenon DEF Allowance
<1>2. SpaceReserved'
  BY <1>1, Zenon DEF SpaceInv, SpaceReserved, NoPanic
<1>3. Image(lh)' = Image(lh)
  BY Zenon DEF Image
<1> QED
  BY <1>2, <1>3, Zenon DEF SpaceInv

\* A step while no call is in progress, before or after it.
LEMMA SpaceIdle ==
  ASSUME SpaceInv, UNCHANGED <<wrote, panicked>>, Active = {}, Active' = {}
  PROVE  SpaceInv'
<1>1. SpaceReserved'
  BY Zenon DEF SpaceInv, SpaceReserved, NoPanic
<1>2. \A q \in Proc : wrote'[q] = {} /\ pc'[q] # "dirty"
  BY Zenon DEF SpaceInv, Active, OpPC
<1> QED
  BY <1>1, <1>2, FS_EmptySet, Zenon DEF SpaceInv

\* Reserving b for each of n + 1 calls that use up to a leaves two blocks.
LEMMA Reservation ==
  ASSUME NEW n \in Nat, n # 0, NEW a \in Nat, NEW b \in Nat, NEW l \in Nat, NEW s \in Nat,
         a < b, l + (n + 1) * b <= s
  PROVE  l + (n + 1) * a <= s - 2
<1>1. PICK d \in Nat : b = a + 1 + d
  <2>1. b - a - 1 \in Nat /\ b = a + 1 + (b - a - 1)
    OBVIOUS
  <2> QED
    BY <2>1, Zenon
<1>2. (n + 1) * (a + 1 + d) = (n + 1) * a + (n + 1) + (n + 1) * d
  BY <1>1
<1>3. (n + 1) * d \in Nat /\ (n + 1) * a \in Nat
  BY <1>1
<1> QED
  BY <1>1, <1>2, <1>3

LEMMA BeginOpSpace ==
  ASSUME Margin, IInv, IdleLogEmpty, SpaceInv, NEW p \in Proc, begin_op(p) PROVE SpaceInv'
<1>0. /\ pc \in [Proc -> PC] /\ outstanding \in Nat /\ Len(lh) \in Nat
      /\ outstanding = Cardinality(Active) /\ pc[p] \notin OpPC
      /\ UNCHANGED <<lh, wrote, panicked, held>>
  BY DEF IInv, TypeOK, CommitInv, begin_op, Running, OpPC
<1>1. CASE pc' = [pc EXCEPT ![p] = "sleep"]
  <2>1. Active' = Active
    BY <1>0, <1>1, Zenon DEF Active, OpPC
  <2> QED
    BY <1>0, <1>1, <2>1, SpaceFrame, Zenon
<1>2. CASE /\ pc' = [pc EXCEPT ![p] = "op"] /\ ~committing
           /\ Len(lh) + (outstanding + 1) * MAXOPBLOCKS <= LOGSIZE
  <2>1. Active' = Active \cup {p} /\ p \notin Active
    BY <1>0, <1>2, Zenon DEF Active, OpPC
  <2>2. Cardinality(Active') = outstanding + 1
    BY <1>0, <2>1, AllowanceFinite, FS_AddElement, Zenon
  <2>3. Cardinality(Allowance') \in Nat /\ Cardinality(Allowance') <= (outstanding + 1) * OPMAX
    BY <2>2, AllowanceFiniteNext, Zenon
  <2>4. Len(lh) + (outstanding + 1) * OPMAX <= LOGSIZE - 2
    <3>1. CASE outstanding = 0
      <4>1. Active = {}
        BY <1>0, <3>1, AllowanceFinite, FS_EmptySet, Zenon
      <4>2. Len(lh) = 0
        <5>1. lh = <<>>
          BY <1>2, <4>1, Zenon DEF IdleLogEmpty, begin_op, Running
        <5> QED
          BY <5>1
      <4> QED
        BY <3>1, <4>2, LogAssumption DEF Margin
    <3>2. CASE outstanding # 0
      BY <1>0, <1>2, <3>2, Reservation, LogAssumption, Zenon DEF Margin
    <3> QED
      BY <3>1, <3>2, Zenon
  <2>a. (outstanding + 1) * OPMAX \in Nat
    BY <1>0, LogAssumption
  <2>5. SpaceReserved'
    BY <1>0, <2>3, <2>4, <2>a, LogAssumption DEF SpaceInv, SpaceReserved, NoPanic, Margin
  <2>6. ASSUME NEW q \in Proc
        PROVE  /\ q \notin Active' => wrote'[q] = {}
               /\ IsFiniteSet(wrote'[q]) /\ wrote'[q] \subseteq Image(lh')
               /\ pc'[q] = "dirty" => Cardinality(wrote'[q] \cup {held'[q]}) <= OPMAX
    BY <1>0, <1>2, <2>1, Zenon DEF SpaceInv, Image
  <2> QED
    BY <2>5, <2>6, Zenon DEF SpaceInv
<1> QED
  BY <1>1, <1>2, Zenon DEF begin_op, Goto

LEMMA LogWriteSpace ==
  ASSUME Margin, IInv, SpaceInv, NEW p \in Proc, log_write(p) PROVE SpaceInv'
<1>0. /\ pc \in [Proc -> PC] /\ wrote \in [Proc -> SUBSET Block] /\ lh \in Seq(Block)
      /\ outstanding = Cardinality(Active) /\ pc[p] = "dirty" /\ p \in Active
      /\ UNCHANGED held /\ held[p] \in Block
  BY HeldBuffer, Zenon DEF IInv, TypeOK, CommitInv, log_write, Running, OpPC, Active
<1>1. Len(lh) \in Nat /\ Len(lh) + Cardinality(Allowance) < NLOG - 1
  BY <1>0 DEF SpaceInv, SpaceReserved
<1>2. LogPanic = "no"
  <2>1. Len(lh) < LOGSIZE /\ Len(lh) < NLOG - 1
    BY <1>1, AllowanceFinite, LogAssumption DEF Margin
  <2>2. outstanding \in Nat /\ ~(outstanding < 1)
    BY <1>0, AllowanceFinite, FS_EmptySet, FS_CardinalityType
  <2> QED
    BY <1>1, <2>1, <2>2, LogAssumption DEF LogPanic
<1>3. /\ panicked' = "no" /\ wrote' = [wrote EXCEPT ![p] = @ \cup {held[p]}]
      /\ pc' = [pc EXCEPT ![p] = "logged"]
      /\ \/ held[p] \in Image(lh) /\ lh' = lh
         \/ held[p] \notin Image(lh) /\ lh' = Append(lh, held[p])
  BY <1>2, Zenon DEF log_write, Goto
<1>4. Active' = Active
  BY <1>0, <1>3, Zenon DEF Active, OpPC
<1>5. Image(lh) \cup {held[p]} \subseteq Image(lh')
  <2>1. CASE lh' = lh
    BY <1>3, <2>1 DEF Image
  <2>2. CASE lh' = Append(lh, held[p])
    BY <1>0, <2>2, AppendBlock, Zenon
  <2> QED
    BY <1>3, <2>1, <2>2, Zenon
<1>w. /\ IsFiniteSet(wrote[p]) /\ Cardinality(wrote[p]) \in Nat
      /\ Cardinality(wrote[p] \cup {held[p]}) <= OPMAX
  BY <1>0, FS_CardinalityType, Zenon DEF SpaceInv
<1>6. CASE held[p] \in wrote[p]
  <2>1. wrote' = wrote /\ lh' = lh
    BY <1>0, <1>3, <1>6, Zenon DEF SpaceInv
  <2> QED
    BY <1>0, <1>3, <1>4, <2>1, SpaceFrame, Zenon DEF SpaceInv, SpaceReserved, NoPanic
<1>7. CASE held[p] \notin wrote[p]
  <2> DEFINE n == Cardinality(wrote[p])
  <2>1. /\ IsFiniteSet(wrote'[p]) /\ Cardinality(wrote'[p]) = n + 1
        /\ n \in Nat /\ n + 1 <= OPMAX
    <3>1. wrote'[p] = wrote[p] \cup {held[p]}
      BY <1>0, <1>3, Zenon
    <3>2. /\ IsFiniteSet(wrote[p] \cup {held[p]})
          /\ Cardinality(wrote[p] \cup {held[p]}) = Cardinality(wrote[p]) + 1
      BY <1>w, <1>7, FS_AddElement, Zenon
    <3> QED
      BY <1>w, <3>1, <3>2, Zenon
  <2> HIDE DEF n
  <2>2. Allowance' = Allowance \ {<<p, n + 1>>} /\ <<p, n + 1>> \in Allowance
    <3>1. \A q \in Proc : q # p => wrote'[q] = wrote[q]
      BY <1>0, <1>3, Zenon
    <3>2. \A i \in 1 .. OPMAX : i > n + 1 <=> i > n /\ i # n + 1
      BY <2>1, LogAssumption
    <3>3. n + 1 \in 1 .. OPMAX /\ n + 1 > n
      BY <2>1, LogAssumption
    <3>4. \A q \in Active, i \in 1 .. OPMAX :
            <<q, i>> \in Allowance' <=> <<q, i>> \in Allowance /\ <<q, i>> # <<p, n + 1>>
      BY <1>4, <2>1, <3>1, <3>2 DEF Allowance, Active, n
    <3> QED
      BY <1>0, <1>4, <3>3, <3>4 DEF Allowance, n
  <2>3. Cardinality(Allowance') = Cardinality(Allowance) - 1
    BY <2>2, AllowanceFinite, FS_RemoveElement, Zenon
  <2>4. Len(lh') \in Nat /\ Len(lh') <= Len(lh) + 1
    BY <1>0, <1>3
  <2>5. SpaceReserved'
    BY <1>1, <1>3, <2>3, <2>4, AllowanceFinite, LogAssumption DEF SpaceReserved, NoPanic
  <2>6. ASSUME NEW q \in Proc
        PROVE  /\ q \notin Active' => wrote'[q] = {}
               /\ IsFiniteSet(wrote'[q]) /\ wrote'[q] \subseteq Image(lh')
               /\ pc'[q] = "dirty" => Cardinality(wrote'[q] \cup {held'[q]}) <= OPMAX
    <3>1. CASE q = p
      BY <1>0, <1>3, <1>4, <1>5, <2>1, <3>1, Zenon DEF SpaceInv
    <3>2. CASE q # p
      BY <1>0, <1>3, <1>4, <1>5, <3>2, Zenon DEF SpaceInv
    <3> QED
      BY <3>1, <3>2, Zenon
  <2> QED
    BY <2>5, <2>6, Zenon DEF SpaceInv
<1> QED
  BY <1>6, <1>7, Zenon

LEMMA EndOpSpace == ASSUME IInv, SpaceInv, NEW p \in Proc, end_op(p) PROVE SpaceInv'
<1>0. /\ pc \in [Proc -> PC] /\ wrote \in [Proc -> SUBSET Block] /\ Len(lh) \in Nat
      /\ pc[p] = "op" /\ p \in Active /\ ~committing
      /\ UNCHANGED <<lh, held>> /\ wrote' = [wrote EXCEPT ![p] = {}]
  BY DEF IInv, TypeOK, CommitInv, end_op, Running, OpPC, Active
<1>1. panicked' = "no"
  BY <1>0, Zenon DEF end_op
<1>2. /\ pc'[p] \in {"idle", "commit"}
      /\ \A q \in Proc : q # p => \/ pc'[q] = pc[q]
                                  \/ pc[q] = "sleep" /\ pc'[q] = "begin_op"
  <2>1. CASE pc' = [pc EXCEPT ![p] = "commit"]
    BY <1>0, <2>1, Zenon
  <2>2. CASE pc' = Wakeup([pc EXCEPT ![p] = "idle"])
    BY <1>0, <2>2, Zenon DEF Wakeup
  <2> QED
    BY <2>1, <2>2, Zenon DEF end_op, Goto
<1>3. Active' = Active \ {p}
  BY <1>2, Zenon DEF Active, OpPC
<1>4. Allowance' \subseteq Allowance
  BY <1>0, <1>3, Zenon DEF Allowance, Active
<1>5. Cardinality(Allowance') <= Cardinality(Allowance)
  BY <1>4, AllowanceFinite, FS_Subset, Zenon
<1>6. SpaceReserved'
  BY <1>0, <1>1, <1>5, AllowanceFinite, AllowanceFiniteNext, LogAssumption
     DEF SpaceInv, SpaceReserved, NoPanic
<1>7. ASSUME NEW q \in Proc
      PROVE  /\ q \notin Active' => wrote'[q] = {}
             /\ IsFiniteSet(wrote'[q]) /\ wrote'[q] \subseteq Image(lh')
             /\ pc'[q] = "dirty" => Cardinality(wrote'[q] \cup {held'[q]}) <= OPMAX
  <2>1. CASE q = p
    BY <1>0, <1>2, <2>1, FS_EmptySet, Zenon
  <2>2. CASE q # p
    BY <1>0, <1>2, <1>3, <2>2, Zenon DEF SpaceInv, Image
  <2> QED
    BY <2>1, <2>2, Zenon
<1> QED
  BY <1>6, <1>7, Zenon DEF SpaceInv

LEMMA StepSpace == ASSUME Margin, IInv, IdleLogEmpty, SpaceInv, [Next]_vars PROVE SpaceInv'
<1>t. pc \in [Proc -> PC]
  BY Zenon DEF IInv, TypeOK
<1>1. ASSUME NEW p \in Proc, StartRead(p) \/ EndRead(p) \/ OpBread(p) \/ OpBrelse(p) PROVE SpaceInv'
  <2>1. \/ pc[p] = "idle" /\ pc' = [pc EXCEPT ![p] = "reading"]
        \/ pc[p] = "reading" /\ pc' = [pc EXCEPT ![p] = "idle"]
        \/ pc[p] = "op" /\ pc' = [pc EXCEPT ![p] = "clean"]
        \/ pc[p] \in {"clean", "logged"} /\ pc' = [pc EXCEPT ![p] = "op"]
    BY <1>1, Zenon DEF StartRead, EndRead, OpBread, OpBrelse, Bread, brelse, Goto
  <2>2. UNCHANGED <<lh, wrote, panicked>> /\ \A q \in Proc \ {p} : held'[q] = held[q]
    BY <1>1, Zenon DEF StartRead, EndRead, OpBread, OpBrelse, Bread, brelse, log, IInv, TypeOK
  <2>3. Active' = Active
    BY <1>t, <2>1, Zenon DEF Active, OpPC
  <2> QED
    BY <1>t, <2>1, <2>2, <2>3, SpaceFrame, Zenon
<1>2. ASSUME NEW p \in Proc, OpModify(p) PROVE SpaceInv'
  <2>1. Active' = Active
    BY <1>t, <1>2, Zenon DEF OpModify, Goto, Active, OpPC
  <2> QED
    BY <1>t, <1>2, <2>1, SpaceFrame, Zenon DEF OpModify, Goto, log
<1>3. ASSUME NEW p \in Proc, CommitStep(p) PROVE SpaceInv'
  <2>1. pc[p] \in CommitPC /\ boot = "up" /\ UNCHANGED <<wrote, panicked>>
    BY <1>3, Zenon DEF CommitStep, commit, write_log, write_head, install_trans, clear, end_commit,
           Running, CommitPC
  <2>2. Active = {}
    BY <2>1, Zenon DEF IInv, CommitInv
  <2>3. /\ pc'[p] \in CommitPC \cup {"idle"}
        /\ \A q \in Proc : q # p => pc'[q] = pc[q] \/ pc'[q] = "begin_op"
    BY <1>t, <1>3, Zenon DEF CommitStep, commit, write_log, write_head, install_trans, clear, end_commit,
           Goto, Wakeup, CommitPC
  <2>4. Active' = {}
    BY <2>2, <2>3, Zenon DEF Active, OpPC, CommitPC
  <2> QED
    BY <2>1, <2>2, <2>4, SpaceIdle, Zenon
<1>4. CASE \E b \in Block : Evict(b)
  <2>1. UNCHANGED <<lh, wrote, panicked, pc, held>>
    BY <1>4, Zenon DEF Evict, log, threads
  <2>2. Active' = Active
    BY <2>1, Zenon DEF Active
  <2> QED
    BY <2>1, <2>2, SpaceFrame, Zenon
<1>5. CASE Crash
  <2>1. Active' = {}
    BY <1>5, Zenon DEF Crash, Active, OpPC
  <2>2. SpaceReserved'
    BY <1>5, <2>1, Zenon DEF Crash, SpaceReserved, NoPanic
  <2> QED
    BY <1>5, <2>2, FS_EmptySet, Zenon DEF Crash, SpaceInv
<1>6. CASE Recover
  <2>1. boot # "up" /\ UNCHANGED <<wrote, panicked, pc>>
    BY <1>6, Zenon DEF Recover, read_head, recover_install, recover_clear, threads
  <2>2. Active = {} /\ Active' = {}
    BY <2>1, Zenon DEF IInv, BootInv, Active, OpPC
  <2> QED
    BY <2>1, <2>2, SpaceIdle, Zenon
<1>7. CASE UNCHANGED vars
  <2>1. Active' = Active
    BY <1>7, Zenon DEF vars, Active
  <2> QED
    BY <1>7, <2>1, SpaceFrame, Zenon DEF vars
<1> QED
  BY <1>1, <1>2, <1>3, <1>4, <1>5, <1>6, <1>7, BeginOpSpace, LogWriteSpace, EndOpSpace, Zenon
     DEF Next, OpStep

\* begin_op()'s test is enough: the calls in progress always find room in the log
\* for all they may still log, and log_write() and end_op() never panic, for any
\* number of threads and blocks.
THEOREM RoomForAll == ASSUME Margin PROVE Spec => []SpaceReserved
<1>1. Init => SpaceInv
  <2>1. Init => Active = {}
    BY Zenon DEF Init, Active, OpPC
  <2> QED
    BY <2>1, FS_EmptySet, Zenon DEF Init, SpaceInv, SpaceReserved, NoPanic
<1>2. IInv /\ IdleLogEmpty /\ SpaceInv /\ [Next]_vars => SpaceInv'
  BY StepSpace, Zenon
<1>3. SpaceInv => SpaceReserved
  BY Zenon DEF SpaceInv
<1>4. WakeInv => IdleLogEmpty
  BY Zenon DEF WakeInv
<1> QED
  BY <1>1, <1>2, <1>3, <1>4, Invariance, WakeInvariance, PTL DEF Spec
=============================================================================
